---- MODULE Spec2Model ----
(***************************************************************************)
(* A model of bot.py of wordlestatsbot: the parsing of the Wordle bot's    *)
(* announcements, the resolution of the players they name, the per-player  *)
(* accumulators of a /setup pass and the bulk store into the user_stats    *)
(* table.                                                                  *)
(*                                                                         *)
(* Text is a sequence of one-character strings, so that the regular        *)
(* expressions, strip(), split(), isdigit() and lower() of the source are  *)
(* computed character by character.  In this model the character "#" is    *)
(* the crown emoji of line 469, which is one code point in the source.     *)
(***************************************************************************)
EXTENDS Integers, Sequences, FiniteSets, TLC

\* ------------------------------------------------------------------ text

Digits == <<"0", "1", "2", "3", "4", "5", "6", "7", "8", "9">>

UpperCase == <<"A", "B", "C", "D", "E", "F", "G", "H", "I", "J", "K", "L", "M",
               "N", "O", "P", "Q", "R", "S", "T", "U", "V", "W", "X", "Y", "Z">>

LowerCase == <<"a", "b", "c", "d", "e", "f", "g", "h", "i", "j", "k", "l", "m",
               "n", "o", "p", "q", "r", "s", "t", "u", "v", "w", "x", "y", "z">>

\* str.isdigit() of one character, and \d of the regular expressions
IsDigitChar(c) == \E i \in 1..Len(Digits) : Digits[i] = c

\* \s of the regular expressions, and the characters strip() and split() drop
IsSpace(c) == c \in {" ", "\n", "\t"}

\* str.lower() of one character
LowerChar(c) ==
    IF \E i \in 1..Len(UpperCase) : UpperCase[i] = c
    THEN LowerCase[CHOOSE i \in 1..Len(UpperCase) : UpperCase[i] = c]
    ELSE c

\* str.lower()
Lower(s) == [i \in 1..Len(s) |-> LowerChar(s[i])]

\* str.isdigit(): every character a digit, and at least one character
IsDigitStr(s) == Len(s) > 0 /\ \A i \in 1..Len(s) : IsDigitChar(s[i])

\* s[i:j] of Python with 1-based i and inclusive j
Slice(s, i, j) == IF j < i THEN <<>> ELSE SubSeq(s, i, j)

\* s.startswith(pat, i-1): pat occurs in s at position i
OccursAt(s, i, pat) ==
    /\ i >= 1
    /\ i + Len(pat) - 1 <= Len(s)
    /\ \A k \in 1..Len(pat) : s[i + k - 1] = pat[k]

\* the members of a finite set of numbers in increasing order
SortedSeq(S) ==
    [k \in 1..Cardinality(S) |->
        CHOOSE x \in S : Cardinality({y \in S : y < x}) = k - 1]

\* the first position at or after i that holds no digit
SkipDigits(s, i) ==
    CHOOSE j \in i..(Len(s) + 1) :
        /\ j > Len(s) \/ ~IsDigitChar(s[j])
        /\ \A k \in i..(j - 1) : IsDigitChar(s[k])

\* the first position at or after i that holds no whitespace
SkipSpaces(s, i) ==
    CHOOSE j \in i..(Len(s) + 1) :
        /\ j > Len(s) \/ ~IsSpace(s[j])
        /\ \A k \in i..(j - 1) : IsSpace(s[k])

\* str.strip(): from the first to the last character that is no whitespace
Strip(s) ==
    LET first == SkipSpaces(s, 1)
        last == CHOOSE j \in 0..Len(s) :
                    /\ j = 0 \/ ~IsSpace(s[j])
                    /\ \A k \in (j + 1)..Len(s) : IsSpace(s[k])
    IN  Slice(s, first, last)

\* str.split(sep) for a one-character separator: the pieces between separators
SplitOn(s, sep) ==
    LET cuts == SortedSeq({i \in 1..Len(s) : s[i] = sep})
    IN  [k \in 1..(Len(cuts) + 1) |->
            Slice(s, IF k = 1 THEN 1 ELSE cuts[k - 1] + 1,
                     IF k > Len(cuts) THEN Len(s) ELSE cuts[k] - 1)]

\* content.split('\n')
SplitLines(s) == SplitOn(s, "\n")

\* str.split(): the maximal runs of non-whitespace
Words(s) ==
    LET starts == SortedSeq({i \in 1..Len(s) :
                      ~IsSpace(s[i]) /\ (i = 1 \/ IsSpace(s[i - 1]))})
    IN  [k \in 1..Len(starts) |->
            Slice(s, starts[k],
                  (CHOOSE j \in starts[k]..(Len(s) + 1) :
                       /\ j > Len(s) \/ IsSpace(s[j])
                       /\ \A m \in starts[k]..(j - 1) : ~IsSpace(s[m])) - 1)]

\* ' '.join(words[:n])
RECURSIVE JoinWords(_, _)
JoinWords(words, n) ==
    IF n = 0 THEN <<>>
    ELSE IF n = 1 THEN words[1]
    ELSE JoinWords(words, n - 1) \o <<" ">> \o words[n]

\* int(s) of a string of decimal digits
DigitValue(c) == (CHOOSE i \in 1..Len(Digits) : Digits[i] = c) - 1

RECURSIVE ParseInt(_)
ParseInt(s) ==
    IF Len(s) = 0 THEN 0
    ELSE 10 * ParseInt(SubSeq(s, 1, Len(s) - 1)) + DigitValue(s[Len(s)])

\* str(n) of a non-negative integer
RECURSIVE FormatInt(_)
FormatInt(n) ==
    IF n < 10 THEN <<Digits[n + 1]>>
    ELSE FormatInt(n \div 10) \o <<Digits[(n % 10) + 1]>>

\* the end of a match of <@!?\d+> that starts at position i, or 0
MentionEnd(s, i) ==
    IF ~OccursAt(s, i, <<"<", "@">>) THEN 0
    ELSE LET d == IF i + 2 <= Len(s) /\ s[i + 2] = "!" THEN i + 3 ELSE i + 2
             e == SkipDigits(s, d)
         IN  IF e > d /\ e <= Len(s) /\ s[e] = ">" THEN e ELSE 0

\* the digits captured by the match of <@!?(\d+)> that starts at i and ends at e
MentionDigits(s, i, e) ==
    LET d == IF s[i + 2] = "!" THEN i + 3 ELSE i + 2 IN Slice(s, d, e - 1)

\* the starts of the matches of <@!?\d+> in s; a match holds one "<", its
\* first character, so no two matches overlap
MentionStarts(s) == SortedSeq({i \in 1..Len(s) : MentionEnd(s, i) > 0})

\* re.findall(r'<@!?(\d+)>', s): the captured digit strings, left to right
FindMentionIds(s) ==
    LET starts == MentionStarts(s)
    IN  [k \in 1..Len(starts) |->
            MentionDigits(s, starts[k], MentionEnd(s, starts[k]))]

\* re.sub(r'<@!?\d+>', '', s): what stands before the k-th match and after
\* the one before it, for every match from the k-th on, and the rest of s
RECURSIVE WithoutMatches(_, _, _, _)
WithoutMatches(s, starts, k, from) ==
    IF k > Len(starts) THEN Slice(s, from, Len(s))
    ELSE Slice(s, from, starts[k] - 1)
         \o WithoutMatches(s, starts, k + 1, MentionEnd(s, starts[k]) + 1)

RemoveMentions(s) == WithoutMatches(s, MentionStarts(s), 1, 1)

\* [m.start() for m in re.finditer(r'@', s)]
AtPositions(s) == SortedSeq({i \in 1..Len(s) : s[i] = "@"})

\* ------------------------------------------------------- message shapes

MAX_WORDLE_GUESSES == 6

StreakHead == <<"Y", "o", "u", "r", " ", "g", "r", "o", "u", "p", " ", "i", "s", " ", "o", "n", " ">>

StreakTail == <<" ", "d", "a", "y", " ", "s", "t", "r", "e", "a", "k">>

NobodyMarker == <<"N", "o", "b", "o", "d", "y", " ", "g", "o", "t", " ", "y", "e", "s", "t", "e", "r", "d", "a", "y", "'", "s", " ", "W", "o", "r", "d", "l", "e">>

CrownText == <<":", "c", "r", "o", "w", "n", ":">>

CrownEmoji == <<"#">>

\* the match of r'Your group is on (a|an) (\d+) day streak' that starts at i
StreakAt(s, i) ==
    /\ OccursAt(s, i, StreakHead)
    /\ LET a == i + Len(StreakHead)
           d == IF OccursAt(s, a, <<"a", " ">>) THEN a + 2
                ELSE IF OccursAt(s, a, <<"a", "n", " ">>) THEN a + 3
                ELSE 0
       IN  /\ d > 0
           /\ SkipDigits(s, d) > d
           /\ OccursAt(s, SkipDigits(s, d), StreakTail)

\* re.search(r'Your group is on (a|an) (\d+) day streak', content)
is_streak_message(content) == \E i \in 1..Len(content) : StreakAt(content, i)

\* re.search(r"Nobody got yesterday's Wordle", content, re.IGNORECASE)
is_nobody_got_message(content) ==
    LET folded == Lower(content)
        marker == Lower(NobodyMarker)
    IN  \E i \in 1..Len(content) : OccursAt(folded, i, marker)

\* the dispatch without re.IGNORECASE in the test of line 1002
dispatch_exact_case(content) ==
    IF content = <<>> THEN "Unrecognized"
    ELSE IF is_streak_message(content) THEN "Results"
    ELSE IF \E i \in 1..Len(content) : OccursAt(content, i, NobodyMarker)
         THEN "NoWinner"
    ELSE "Unrecognized"

\* lines 998-1016 of on_message and 1185-1200 of setup: what a message of the
\* Wordle bot is handled as, by its content
dispatch(content) ==
    IF content = <<>> THEN "Unrecognized"
    ELSE IF is_streak_message(content) THEN "Results"
    ELSE IF is_nobody_got_message(content) THEN "NoWinner"
    ELSE "Unrecognized"

NoMatch == [matched |-> FALSE, guess_str |-> "", users_str |-> <<>>]

\* the position after the optional group (:crown:\s+|<crown emoji>\s+)? at the
\* start of the line; the group matches nothing when no crown and whitespace
\* stand there
AfterCrown(line) ==
    LET c == IF OccursAt(line, 1, CrownText) THEN Len(CrownText) + 1
             ELSE IF OccursAt(line, 1, CrownEmoji) THEN Len(CrownEmoji) + 1
             ELSE 0
    IN  IF c > 0 /\ SkipSpaces(line, c) > c THEN SkipSpaces(line, c) ELSE 1

\* MatchResultLine with (\d|X) as its second group
MatchResultLine_any_digit(line) ==
    LET g == AfterCrown(line)
        w == g + 4
        r == SkipSpaces(line, w)
    IN  IF /\ g <= Len(line)
           /\ (IsDigitChar(line[g]) \/ line[g] = "X")
           /\ OccursAt(line, g + 1, <<"/", "6", ":">>)
        THEN IF r > w /\ r <= Len(line)
             THEN [matched |-> TRUE, guess_str |-> line[g],
                   users_str |-> Slice(line, r, Len(line))]
             ELSE IF r > w + 1
             THEN [matched |-> TRUE, guess_str |-> line[g],
                   users_str |-> Slice(line, r - 1, Len(line))]
             ELSE NoMatch
        ELSE NoMatch

\* re.match(r'(:crown:\s+|<crown emoji>\s+)?([1-6X])/6:\s+(.+)', line):
\* group 2 and group 3 of the match.  \s+ takes all the whitespace, and gives
\* one character back to (.+) when nothing follows it.
MatchResultLine(line) ==
    LET g == AfterCrown(line)
        w == g + 4
        r == SkipSpaces(line, w)
    IN  IF /\ g <= Len(line)
           /\ line[g] \in {"1", "2", "3", "4", "5", "6", "X"}
           /\ OccursAt(line, g + 1, <<"/", "6", ":">>)
        THEN IF r > w /\ r <= Len(line)
             THEN [matched |-> TRUE, guess_str |-> line[g],
                   users_str |-> Slice(line, r, Len(line))]
             ELSE IF r > w + 1
             THEN [matched |-> TRUE, guess_str |-> line[g],
                   users_str |-> Slice(line, r - 1, Len(line))]
             ELSE NoMatch
        ELSE NoMatch

\* ------------------------------------------------------------ identities

\* the absent user: None in the source
NoUser == [id |-> -1, name |-> <<>>, display_name |-> <<>>]

\* the absent guild: message.guild is None and no guild_override is given
NoGuild == [present |-> FALSE, members |-> <<>>, remote |-> <<>>]

\* discord.utils.get(seq, id=user_id): the first element with that id
get_by_id(seq, user_id) ==
    IF \E i \in 1..Len(seq) : seq[i].id = user_id
    THEN seq[CHOOSE i \in 1..Len(seq) :
                 /\ seq[i].id = user_id
                 /\ \A j \in 1..(i - 1) : seq[j].id # user_id]
    ELSE NoUser

\* discord.utils.find(pred, seq), hits being the indices of the elements of seq
\* that satisfy pred: the first such element
first_of(seq, hits) ==
    IF hits = {} THEN NoUser
    ELSE seq[CHOOSE i \in hits : \A j \in hits : i <= j]

\* guild.get_member(user_id): the member cache of the guild
get_member(guild, user_id) == get_by_id(guild.members, user_id)

\* await guild.fetch_member(user_id) under one outcome of the request: the
\* platform answers (the member, or NotFound when the guild has no such
\* member), or the request fails with an HTTPException or another exception
fetch_member(guild, user_id, outcome) ==
    IF outcome = "answer"
    THEN LET m == get_by_id(guild.members \o guild.remote, user_id)
         IN  IF m = NoUser THEN [raised |-> "NotFound", user |-> NoUser]
             ELSE [raised |-> "", user |-> m]
    ELSE [raised |-> outcome, user |-> NoUser]

\* f'User_{user_id}'
placeholder_username(user_id) == <<"U", "s", "e", "r", "_">> \o FormatInt(user_id)

\* WordleGameResult(user_id, username, won, guesses)
WordleGameResult(user_id, username, won, guesses) ==
    [user_id |-> user_id, username |-> username, won |-> won, guesses |-> guesses]

\* ------------------------------------------------ free-text resolution

\* lines 350-351 and 567-568: the candidate is the name or the display name
\* of a user already in user_objects
already_found(user_objects, candidate) ==
    \E i \in 1..Len(user_objects) :
        \/ user_objects[i].name = candidate
        \/ user_objects[i].display_name = candidate

\* find_member with the username asked before the display name
find_member_name_first(guild, candidate) ==
    LET indices == 1..Len(guild.members)
        by_display == first_of(guild.members,
                          {i \in indices : guild.members[i].display_name = candidate})
        by_name    == first_of(guild.members,
                          {i \in indices : guild.members[i].name = candidate})
        by_lower   == first_of(guild.members,
                          {i \in indices :
                              \/ Lower(guild.members[i].display_name) = Lower(candidate)
                              \/ Lower(guild.members[i].name) = Lower(candidate)})
    IN  IF by_name # NoUser THEN by_name
        ELSE IF by_display # NoUser THEN by_display
        ELSE by_lower

\* lines 355-372 and 571-586: the member a candidate resolves to: the first
\* with that display name, else the first with that username, else the first
\* whose display name or username is the candidate up to letter case
find_member(guild, candidate) ==
    LET indices == 1..Len(guild.members)
        by_display == first_of(guild.members,
                          {i \in indices : guild.members[i].display_name = candidate})
        by_name    == first_of(guild.members,
                          {i \in indices : guild.members[i].name = candidate})
        by_lower   == first_of(guild.members,
                          {i \in indices :
                              \/ Lower(guild.members[i].display_name) = Lower(candidate)
                              \/ Lower(guild.members[i].name) = Lower(candidate)})
    IN  IF by_display # NoUser THEN by_display
        ELSE IF by_name # NoUser THEN by_name
        ELSE by_lower

\* match_words with the longest candidate that matches taken, not the first
RECURSIVE match_words_longest(_, _, _, _, _)
match_words_longest(words, word_count, max_words, guild, user_objects) ==
    IF word_count > max_words THEN NoUser
    ELSE LET candidate == JoinWords(words, word_count)
             longer == match_words_longest(words, word_count + 1, max_words,
                                           guild, user_objects)
         IN  IF longer # NoUser THEN longer
             ELSE IF IsDigitStr(candidate) THEN NoUser
             ELSE IF already_found(user_objects, candidate) THEN NoUser
             ELSE find_member(guild, candidate)

\* match_words without the skip of the numeric candidate
RECURSIVE match_words_with_digits(_, _, _, _, _)
match_words_with_digits(words, word_count, max_words, guild, user_objects) ==
    IF word_count > max_words THEN NoUser
    ELSE LET candidate == JoinWords(words, word_count)
         IN  IF already_found(user_objects, candidate)
             THEN match_words_with_digits(words, word_count + 1, max_words,
                                          guild, user_objects)
             ELSE LET user == find_member(guild, candidate)
                  IN  IF user # NoUser THEN user
                      ELSE match_words_with_digits(words, word_count + 1,
                                                   max_words, guild, user_objects)

\* lines 341-376 and 561-590: the loop over word_count from word_count on
RECURSIVE match_words(_, _, _, _, _)
match_words(words, word_count, max_words, guild, user_objects) ==
    IF word_count > max_words THEN NoUser
    ELSE LET candidate == JoinWords(words, word_count)
         IN  IF IsDigitStr(candidate)
             THEN match_words(words, word_count + 1, max_words, guild, user_objects)
             ELSE IF already_found(user_objects, candidate)
             THEN match_words(words, word_count + 1, max_words, guild, user_objects)
             ELSE LET user == find_member(guild, candidate)
                  IN  IF user # NoUser THEN user
                      ELSE match_words(words, word_count + 1, max_words,
                                       guild, user_objects)

\* lines 322-328 and 546-550: the text after the i-th @, up to the next @
text_after_at(content_clean, at_positions, i) ==
    IF i + 1 <= Len(at_positions)
    THEN Strip(Slice(content_clean, at_positions[i] + 1, at_positions[i + 1] - 1))
    ELSE Strip(Slice(content_clean, at_positions[i] + 1, Len(content_clean)))

\* resolve_window with a placeholder for the window that matches no member
resolve_window_placeholder(text, guild, user_objects) ==
    IF text = <<>> THEN NoUser
    ELSE LET words == Words(text)
             max_words == IF Len(words) < 5 THEN Len(words) ELSE 5
             user == match_words(words, 1, max_words, guild, user_objects)
         IN  IF user # NoUser THEN user
             ELSE [id |-> 0, name |-> <<"U", "s", "e", "r", "_">> \o Head(words),
                   display_name |-> Head(words)]

\* lines 330-379 and 552-593: the user one window appends, or NoUser
resolve_window(text, guild, user_objects) ==
    IF text = <<>> THEN NoUser
    ELSE LET words == Words(text)
             max_words == IF Len(words) < 5 THEN Len(words) ELSE 5
         IN  match_words(words, 1, max_words, guild, user_objects)

\* lines 320-379 and 545-593: the loop over the @ positions from the i-th on
RECURSIVE resolve_plain_text(_, _, _, _, _)
resolve_plain_text(content_clean, at_positions, i, guild, user_objects) ==
    IF i > Len(at_positions) THEN user_objects
    ELSE LET user == resolve_window(text_after_at(content_clean, at_positions, i),
                                    guild, user_objects)
         IN  resolve_plain_text(content_clean, at_positions, i + 1, guild,
                 IF user # NoUser THEN Append(user_objects, user) ELSE user_objects)

\* -------------------------------------------- extract_users_from_content

\* lines 272-310: the loop over mention_ids from the k-th on; n counts the
\* calls of fetch_member made so far, fetch[n] is the outcome of the n-th
RECURSIVE extract_mentions(_, _, _, _, _, _)
extract_mentions(mention_ids, k, mentions, guild, fetch, acc) ==
    IF k > Len(mention_ids) THEN acc
    ELSE LET user_id == ParseInt(mention_ids[k])
             user == get_by_id(mentions, user_id)
         IN  IF user # NoUser
             THEN extract_mentions(mention_ids, k + 1, mentions, guild, fetch,
                      [acc EXCEPT !.user_objects = Append(@, user)])
             ELSE IF ~guild.present
             THEN extract_mentions(mention_ids, k + 1, mentions, guild, fetch, acc)
             ELSE IF get_member(guild, user_id) # NoUser
             THEN extract_mentions(mention_ids, k + 1, mentions, guild, fetch,
                      [acc EXCEPT !.user_objects =
                                      Append(@, get_member(guild, user_id))])
             ELSE LET got == fetch_member(guild, user_id, fetch[acc.n + 1])
                  IN  extract_mentions(mention_ids, k + 1, mentions, guild, fetch,
                          IF got.raised = ""
                          THEN [acc EXCEPT !.user_objects = Append(@, got.user),
                                           !.n = @ + 1]
                          ELSE [acc EXCEPT !.n = @ + 1])

\* extract_users_from_content(message, content, guild_override): the users
\* found, and the number of fetch_member calls made
extract_users_from_content(mentions, content, guild, fetch, n) ==
    LET found == extract_mentions(FindMentionIds(content), 1, mentions, guild,
                                  fetch, [user_objects |-> <<>>, n |-> n])
        content_clean == RemoveMentions(content)
    IN  IF guild.present
        THEN [found EXCEPT !.user_objects =
                  resolve_plain_text(content_clean, AtPositions(content_clean),
                                     1, guild, found.user_objects)]
        ELSE found

\* results_of with the display name as username
RECURSIVE results_of_display_name(_, _, _)
results_of_display_name(user_objects, won, guesses) ==
    IF user_objects = <<>> THEN <<>>
    ELSE <<WordleGameResult(Head(user_objects).id, Head(user_objects).display_name,
                            won, guesses)>>
         \o results_of_display_name(Tail(user_objects), won, guesses)

\* results.append(...) for every user of user_objects
RECURSIVE results_of(_, _, _)
results_of(user_objects, won, guesses) ==
    IF user_objects = <<>> THEN <<>>
    ELSE <<WordleGameResult(Head(user_objects).id, Head(user_objects).name,
                            won, guesses)>>
         \o results_of(Tail(user_objects), won, guesses)

\* parse_nobody_message_content(message, guild_override)
parse_nobody_message_content(content, mentions, guild, fetch) ==
    IF content = <<>> THEN <<>>
    ELSE IF ~is_nobody_got_message(content) THEN <<>>
    ELSE results_of(extract_users_from_content(mentions, content, guild,
                                               fetch, 0).user_objects,
                    FALSE, MAX_WORDLE_GUESSES)

\* ---------------------------------------- parse_wordle_message_content

\* resolve_mentions with the loop of extract_users_from_content, which drops
\* the ids it cannot resolve
resolve_mentions_dropping(mention_ids, k, mentions, guild, fetch, acc) ==
    LET found == extract_mentions(mention_ids, k, mentions, guild, fetch,
                     [user_objects |-> acc.user_objects, n |-> acc.n])
    IN  [acc EXCEPT !.user_objects = found.user_objects, !.n = found.n]

\* lines 487-536: the loop over mention_ids from the k-th on
RECURSIVE resolve_mentions(_, _, _, _, _, _)
resolve_mentions(mention_ids, k, mentions, guild, fetch, acc) ==
    IF k > Len(mention_ids) THEN acc
    ELSE LET user_id == ParseInt(mention_ids[k])
             user == get_by_id(mentions, user_id)
             unresolved == <<user_id, placeholder_username(user_id)>>
         IN  IF user # NoUser
             THEN resolve_mentions(mention_ids, k + 1, mentions, guild, fetch,
                      [acc EXCEPT !.user_objects = Append(@, user)])
             ELSE IF ~guild.present
             THEN resolve_mentions(mention_ids, k + 1, mentions, guild, fetch,
                      [acc EXCEPT !.unresolved_user_ids = Append(@, unresolved)])
             ELSE IF get_member(guild, user_id) # NoUser
             THEN resolve_mentions(mention_ids, k + 1, mentions, guild, fetch,
                      [acc EXCEPT !.user_objects =
                                      Append(@, get_member(guild, user_id))])
             ELSE LET got == fetch_member(guild, user_id, fetch[acc.n + 1])
                  IN  resolve_mentions(mention_ids, k + 1, mentions, guild, fetch,
                          IF got.raised = ""
                          THEN [acc EXCEPT !.user_objects = Append(@, got.user),
                                           !.n = @ + 1]
                          ELSE [acc EXCEPT !.unresolved_user_ids =
                                               Append(@, unresolved),
                                           !.n = @ + 1])

\* results.append(...) for every pair of unresolved_user_ids
RECURSIVE results_of_unresolved(_, _, _)
results_of_unresolved(unresolved_user_ids, won, guesses) ==
    IF unresolved_user_ids = <<>> THEN <<>>
    ELSE <<WordleGameResult(Head(unresolved_user_ids)[1],
                            Head(unresolved_user_ids)[2], won, guesses)>>
         \o results_of_unresolved(Tail(unresolved_user_ids), won, guesses)

\* parse_result_line with the failure token of line 480 written in lower case
parse_result_line_lower_x(match, mentions, guild, fetch, n) ==
    LET guess_count == IF match.guess_str = "X" THEN MAX_WORDLE_GUESSES
                       ELSE DigitValue(match.guess_str)
        won == match.guess_str # "x"
        found == resolve_mentions(FindMentionIds(match.users_str), 1, mentions,
                     guild, fetch,
                     [user_objects |-> <<>>, unresolved_user_ids |-> <<>>, n |-> n])
        users_str_clean == RemoveMentions(match.users_str)
        user_objects ==
            IF guild.present
            THEN resolve_plain_text(users_str_clean,
                                    AtPositions(users_str_clean), 1, guild,
                                    found.user_objects)
            ELSE found.user_objects
    IN  [results |-> results_of(user_objects, won, guess_count)
                     \o results_of_unresolved(found.unresolved_user_ids,
                                              won, guess_count),
         n |-> found.n]

\* lines 471-627: the results of one line that matched, and the number of
\* fetch_member calls made after it
parse_result_line(match, mentions, guild, fetch, n) ==
    LET guess_count == IF match.guess_str = "X" THEN MAX_WORDLE_GUESSES
                       ELSE DigitValue(match.guess_str)
        won == match.guess_str # "X"
        found == resolve_mentions(FindMentionIds(match.users_str), 1, mentions,
                     guild, fetch,
                     [user_objects |-> <<>>, unresolved_user_ids |-> <<>>, n |-> n])
        users_str_clean == RemoveMentions(match.users_str)
        user_objects ==
            IF guild.present
            THEN resolve_plain_text(users_str_clean,
                                    AtPositions(users_str_clean), 1, guild,
                                    found.user_objects)
            ELSE found.user_objects
    IN  [results |-> results_of(user_objects, won, guess_count)
                     \o results_of_unresolved(found.unresolved_user_ids,
                                              won, guess_count),
         n |-> found.n]

\* lines 463-627: the loop over the lines from the i-th on: for every line the
\* results it appends, none for a line that is empty or does not match
RECURSIVE parse_lines(_, _, _, _, _, _)
parse_lines(lines, i, mentions, guild, fetch, n) ==
    IF i > Len(lines) THEN <<>>
    ELSE LET line == Strip(lines[i])
             match == MatchResultLine(line)
         IN  IF line = <<>> \/ ~match.matched
             THEN <<<<>>>> \o parse_lines(lines, i + 1, mentions, guild, fetch, n)
             ELSE LET parsed == parse_result_line(match, mentions, guild, fetch, n)
                  IN  <<parsed.results>>
                      \o parse_lines(lines, i + 1, mentions, guild, fetch, parsed.n)

\* the results of all lines, in the order of the lines
RECURSIVE Flatten(_)
Flatten(seqs) == IF seqs = <<>> THEN <<>> ELSE Head(seqs) \o Flatten(Tail(seqs))

\* lines 444-461 of parse_wordle_message_content: the results line by line
parse_wordle_lines(content, mentions, guild, fetch) ==
    IF content = <<>> THEN <<>>
    ELSE IF ~is_streak_message(content) THEN <<>>
    ELSE parse_lines(SplitLines(content), 1, mentions, guild, fetch, 0)

\* parse_wordle_message_content(message, guild_override)
parse_wordle_message_content(content, mentions, guild, fetch) ==
    Flatten(parse_wordle_lines(content, mentions, guild, fetch))

\* ------------------------------------------------------------ accumulators

\* the empty dict: user_stats = {} of line 1171
EmptyMap == [k \in {} |-> 0]

\* initialize_user_stats(user_id, username)
initialize_user_stats(user_id, username) ==
    [user_id |-> user_id, username |-> username, total_games |-> 0,
     total_guesses |-> 0, wins |-> 0, losses |-> 0]

\* with_entry without the test of lines 676 and 650
with_entry_always(user_stats, res) ==
    [user_id \in DOMAIN user_stats \cup {res.user_id} |->
        IF user_id = res.user_id
        THEN initialize_user_stats(res.user_id, res.username)
        ELSE user_stats[user_id]]

\* lines 676-677 and 650-651: the entry is created when it is absent
with_entry(user_stats, res) ==
    IF res.user_id \in DOMAIN user_stats THEN user_stats
    ELSE user_stats @@ (res.user_id :> initialize_user_stats(res.user_id, res.username))

\* lines 676-684: one iteration of the loop of process_wordle_message
add_wordle_result(user_stats, res) ==
    [with_entry(user_stats, res) EXCEPT
        ![res.user_id].total_games = @ + 1,
        ![res.user_id].wins = IF res.won THEN @ + 1 ELSE @,
        ![res.user_id].losses = IF res.won THEN @ ELSE @ + 1,
        ![res.user_id].total_guesses = @ + res.guesses]

\* add_nobody_result without line 654
add_nobody_result_no_loss(user_stats, res) ==
    [with_entry(user_stats, res) EXCEPT
        ![res.user_id].total_games = @ + 1,
        ![res.user_id].total_guesses = @ + res.guesses]

\* lines 650-655: one iteration of the loop of process_nobody_got_wordle_message
add_nobody_result(user_stats, res) ==
    [with_entry(user_stats, res) EXCEPT
        ![res.user_id].total_games = @ + 1,
        ![res.user_id].losses = @ + 1,
        ![res.user_id].total_guesses = @ + res.guesses]

\* lines 675-684 of process_wordle_message(message, user_stats,
\* guild_override): user_stats after the loop over the results of line 673
RECURSIVE process_wordle_message(_, _)
process_wordle_message(results, user_stats) ==
    IF results = <<>> THEN user_stats
    ELSE process_wordle_message(Tail(results),
                                add_wordle_result(user_stats, Head(results)))

\* lines 649-655 of process_nobody_got_wordle_message(message, user_stats,
\* guild_override): user_stats after the loop over the results of line 647
RECURSIVE process_nobody_got_wordle_message(_, _)
process_nobody_got_wordle_message(results, user_stats) ==
    IF results = <<>> THEN user_stats
    ELSE process_nobody_got_wordle_message(Tail(results),
                                           add_nobody_result(user_stats, Head(results)))

\* ------------------------------------------------------------- statistics

\* the quotient num / den of two integers, kept exact
Ratio(num, den) == [num |-> num, den |-> den]

\* rate_of without the test "if total_games > 0" of lines 707-708
rate_of_unguarded(count, total_games) == Ratio(count * 100, total_games)

\* lines 707-713: wins / total_games * 100 and its like, 0 without games
rate_of(count, total_games) ==
    IF total_games > 0 THEN Ratio(count * 100, total_games) ELSE Ratio(0, 1)

average_of(total_guesses, total_games) ==
    IF total_games > 0 THEN Ratio(total_guesses, total_games) ELSE Ratio(0, 1)

\* calculate_statistics(user_stats)
calculate_statistics(user_stats) ==
    [user_id \in DOMAIN user_stats |->
        LET stats == user_stats[user_id]
        IN  [user_id |-> user_id,
             username |-> stats.username,
             total_games |-> stats.total_games,
             total_guesses |-> stats.total_guesses,
             wins |-> stats.wins,
             losses |-> stats.losses,
             win_rate |-> rate_of(stats.wins, stats.total_games),
             loss_rate |-> rate_of(stats.losses, stats.total_games),
             avg_guess |-> average_of(stats.total_guesses, stats.total_games)]]

\* round(x, 2) as a number of hundredths: the nearest, the even one of two
\* that are equally near
Round2(x) ==
    LET scaled == x.num * 100
        q == scaled \div x.den
        r == scaled % x.den
    IN  IF 2 * r < x.den THEN q
        ELSE IF 2 * r > x.den THEN q + 1
        ELSE IF q % 2 = 0 THEN q ELSE q + 1

\* ------------------------------------------------------------ persistence

\* generate_uuid_from_user_id(user_id): the uuid5 of str(user_id) in a fixed
\* namespace, a value that str(user_id) determines
generate_uuid_from_user_id(user_id) == <<"uuid5", FormatInt(user_id)>>

\* current_timestamp taken at the time of the call
current_timestamp_at_call(utcnow) == utcnow

\* line 767: current_timestamp, a day before the time of the call, in days
current_timestamp_of(utcnow) == utcnow - 1

\* lines 776-788 and 797-809: the record written for one user
record_of(stats, current_timestamp) ==
    [id |-> generate_uuid_from_user_id(stats.user_id),
     user_id |-> FormatInt(stats.user_id),
     username |-> stats.username,
     total_games |-> stats.total_games,
     total_guesses |-> stats.total_guesses,
     wins |-> stats.wins,
     losses |-> stats.losses,
     win_rate |-> Round2(stats.win_rate),
     loss_rate |-> Round2(stats.loss_rate),
     avg_guess |-> Round2(stats.avg_guess),
     last_updated_date |-> current_timestamp]

\* get_user_stats_from_supabase(user_ids) for a list of ids.  table is the
\* user_stats table, one row per primary key; read_ok tells whether the
\* requests succeed, and a failed request leaves the empty dict of line 934.
\* The lists of the model are shorter than BATCH_SIZE, so there is one batch.
get_user_stats_from_supabase(table, user_ids, configured, read_ok) ==
    IF ~configured THEN EmptyMap
    ELSE IF ~read_ok THEN EmptyMap
    ELSE LET user_id_strs == {FormatInt(uid) : uid \in user_ids}
             data == {key \in DOMAIN table : table[key].user_id \in user_id_strs}
             uids == {ParseInt(table[key].user_id) : key \in data}
         IN  [uid \in uids |->
                 LET record == table[CHOOSE key \in data :
                                         ParseInt(table[key].user_id) = uid]
                 IN  [user_id |-> uid,
                      username |-> record.username,
                      total_games |-> record.total_games,
                      total_guesses |-> record.total_guesses,
                      wins |-> record.wins,
                      losses |-> record.losses,
                      win_rate |-> record.win_rate,
                      loss_rate |-> record.loss_rate,
                      avg_guess |-> record.avg_guess]]

\* is_written without the comparison of line 795
is_written_always(stats_summary, existing_stats, user_id) == TRUE

\* is_written with the comparison of line 795 made >=
is_written_on_equal(stats_summary, existing_stats, user_id) ==
    IF user_id \notin DOMAIN existing_stats THEN TRUE
    ELSE stats_summary[user_id].total_games >= existing_stats[user_id].total_games

\* lines 774 and 795: the record of user_id goes into records
is_written(stats_summary, existing_stats, user_id) ==
    IF user_id \notin DOMAIN existing_stats THEN TRUE
    ELSE stats_summary[user_id].total_games > existing_stats[user_id].total_games

\* classify without the count of line 814
classify_skip_uncounted(stats_summary, existing_stats, current_timestamp) ==
    LET written == {uid \in DOMAIN stats_summary :
                        IF uid \notin DOMAIN existing_stats THEN TRUE
                        ELSE stats_summary[uid].total_games
                                 > existing_stats[uid].total_games}
        added == {uid \in DOMAIN stats_summary : uid \notin DOMAIN existing_stats}
    IN  [records |-> [key \in {generate_uuid_from_user_id(uid) : uid \in written} |->
                         record_of(stats_summary[CHOOSE uid \in written :
                                       generate_uuid_from_user_id(uid) = key],
                                   current_timestamp)],
         added_count |-> Cardinality(added),
         updated_count |-> Cardinality(written \ added),
         skipped_count |-> 0]

\* lines 759-818 of store_user_stats_in_supabase: the loop over stats_summary.
\* records is keyed by the primary key of each record, which is how the
\* upsert reads it
classify(stats_summary, existing_stats, current_timestamp) ==
    LET written == {uid \in DOMAIN stats_summary :
                        is_written(stats_summary, existing_stats, uid)}
        added == {uid \in DOMAIN stats_summary : uid \notin DOMAIN existing_stats}
    IN  [records |-> [key \in {generate_uuid_from_user_id(uid) : uid \in written} |->
                         record_of(stats_summary[CHOOSE uid \in written :
                                       generate_uuid_from_user_id(uid) = key],
                                   current_timestamp)],
         added_count |-> Cardinality(added),
         updated_count |-> Cardinality(written \ added),
         skipped_count |-> Cardinality(DOMAIN stats_summary \ written)]

\* supabase.table('user_stats').upsert(records): every record replaces the
\* row of its primary key, or becomes a new row
upsert(table, records) ==
    [key \in DOMAIN table \cup DOMAIN records |->
        IF key \in DOMAIN records THEN records[key] ELSE table[key]]

\* ----------------------------------------------------------------- bounds

\* the Wordle bot messages one /setup pass reads from the channel history
MaxHistory == 2

\* the calls of fetch_member whose outcome is drawn for one message
MaxFetch == 2

\* the player references of one generated fragment
MaxRefs == 2

\* ----------------------------------------------------------------- inputs

Ann == [id |-> 1, name |-> <<"a", "n", "n">>, display_name |-> <<"A", "n", "n">>]

Jo == [id |-> 2, name |-> <<"j", "o">>, display_name |-> <<"J", "o">>]

JoSmith == [id |-> 3, name |-> <<"j", "o", "s">>, display_name |-> <<"J", "o", " ", "S", "m", "i", "t", "h">>]

Zed == [id |-> 5, name |-> <<"z", "e", "d">>, display_name |-> <<"Z", "e", "d">>]

\* a guild whose member cache holds every member but Zed
GuildA == [present |-> TRUE, members |-> <<Ann, Jo, JoSmith>>, remote |-> <<Zed>>]

\* a guild where "Jo Smith" is a member and "Jo" is not in the cache
GuildB == [present |-> TRUE, members |-> <<JoSmith, Ann>>, remote |-> <<Jo, Zed>>]

Guilds == {NoGuild, GuildA, GuildB}

MentionLists == {<<>>, <<Ann>>}

FetchOutcomes == {"answer", "HTTPException", "Exception"}

Fetches == [1..MaxFetch -> FetchOutcomes]

StreakLine == <<"Y", "o", "u", "r", " ", "g", "r", "o", "u", "p", " ", "i", "s", " ", "o", "n", " ", "a", " ", "5", " ", "d", "a", "y", " ", "s", "t", "r", "e", "a", "k", "!">>

NobodyLine == <<"N", "o", "b", "o", "d", "y", " ", "g", "o", "t", " ", "y", "e", "s", "t", "e", "r", "d", "a", "y", "'", "s", " ", "W", "o", "r", "d", "l", "e">>

NobodyLineLower == <<"n", "o", "b", "o", "d", "y", " ", "g", "o", "t", " ", "y", "e", "s", "t", "e", "r", "d", "a", "y", "'", "s", " ", "w", "o", "r", "d", "l", "e">>

\* the references a fragment is made of: tags of a cached member, of a
\* member outside the cache and of nobody, and free text
RefPieces ==
    { <<"<", "@", "1", ">">>,
      <<"<", "@", "!", "2", ">">>,
      <<"<", "@", "5", ">">>,
      <<"<", "@", "8", ">">>,
      <<"@", "A", "n", "n">>,
      <<"@", "A", "N", "N">>,
      <<"@", "J", "o">>,
      <<"@", "J", "o", " ", "S", "m", "i", "t", "h">>,
      <<"@", "1", "2">>,
      <<"@", "z", "e", "d">> }

\* the fragments of n references, each after one space
RECURSIVE RefTexts(_)
RefTexts(n) ==
    IF n = 0 THEN {<<>>}
    ELSE {t \o <<" ">> \o p : t \in RefTexts(n - 1), p \in RefPieces}

Fragments == UNION {RefTexts(n) : n \in 1..MaxRefs}

Prefixes == {<<>>, CrownText \o <<" ">>, CrownEmoji \o <<" ", " ">>, CrownEmoji}

GuessTokens == {"1", "3", "6", "X", "7"}

\* result lines of every shape, with few references
ShapeLines ==
    {pre \o <<tok>> \o sep \o refs :
        pre \in Prefixes, tok \in GuessTokens,
        sep \in {<<"/", "6", ":">>, <<"/", "6">>},
        refs \in {<<" ", "<", "@", "1", ">">>, <<" ", "@", "J", "o", " ", "S", "m", "i", "t", "h", " ", "<", "@", "8", ">">>}}

\* result lines of one shape, with every fragment
FragmentLines ==
    {<<tok, "/", "6", ":">> \o refs : tok \in {"3", "X"}, refs \in Fragments}

\* two result lines after the streak line, the second after an empty line
TwoLines ==
    { <<"3", "/", "6", ":", " ", "<", "@", "5", ">", "\n", "\n", "X", "/", "6", ":", " ", "<", "@", "8", ">">>,
      <<"#", " ", "1", "/", "6", ":", " ", "@", "J", "o", "\n", "n", "o", "t", "e", " ", "<", "@", "1", ">", "\n", "6", "/", "6", ":", " ", "<", "@", "1", ">", " ", "@", "A", "N", "N">> }

ResultsContents ==
    {StreakLine \o <<"\n">> \o line : line \in ShapeLines \cup FragmentLines \cup TwoLines}

NobodyContents ==
    {head \o refs : head \in {NobodyLine, NobodyLineLower}, refs \in Fragments}

\* contents that are neither announcement, and the empty content
OtherContents == {<<>>, <<"h", "e", "l", "l", "o", " ", "<", "@", "1", ">">>}

\* contents with both markers, with a marker in another letter case or cut
\* short, and results lines with tags only
MarkerContents ==
    { <<"Y", "o", "u", "r", " ", "g", "r", "o", "u", "p", " ", "i", "s", " ", "o", "n", " ", "a", " ", "5", " ", "d", "a", "y", " ", "s", "t", "r", "e", "a", "k", "!", "\n", "N", "o", "b", "o", "d", "y", " ", "g", "o", "t", " ", "y", "e", "s", "t", "e", "r", "d", "a", "y", "'", "s", " ", "W", "o", "r", "d", "l", "e", " ", "<", "@", "1", ">">>,
      <<"n", "o", "b", "o", "d", "y", " ", "g", "o", "t", " ", "y", "e", "s", "t", "e", "r", "d", "a", "y", "'", "s", " ", "w", "o", "r", "d", "l", "e", " ", "<", "@", "1", ">", "\n", "Y", "o", "u", "r", " ", "g", "r", "o", "u", "p", " ", "i", "s", " ", "o", "n", " ", "a", "n", " ", "1", "1", " ", "d", "a", "y", " ", "s", "t", "r", "e", "a", "k", "!", "\n", "3", "/", "6", ":", " ", "<", "@", "!", "2", ">">>,
      <<"Y", "o", "u", "r", " ", "g", "r", "o", "u", "p", " ", "i", "s", " ", "o", "n", " ", "a", "n", " ", "8", " ", "d", "a", "y", " ", "s", "t", "r", "e", "a", "k", "!", "\n", "3", "/", "6", ":", " ", "<", "@", "1", ">", "\n", "X", "/", "6", ":", " ", "<", "@", "!", "2", ">">>,
      <<"Y", "o", "u", "r", " ", "g", "r", "o", "u", "p", " ", "i", "s", " ", "o", "n", " ", "a", "n", " ", "8", " ", "d", "a", "y", " ", "s", "t", "r", "e", "a", "k", "!", "\n", "3", "/", "6", ":", " ", "<", "@", "1", ">", " ", "<", "@", "3", ">", "\n", "\n", "4", "/", "6", ":", " ", "<", "@", "!", "2", ">", "\n", "X", "/", "6", ":", " ", "<", "@", "1", ">">>,
      <<"y", "o", "u", "r", " ", "g", "r", "o", "u", "p", " ", "i", "s", " ", "o", "n", " ", "a", " ", "5", " ", "d", "a", "y", " ", "s", "t", "r", "e", "a", "k", "!", "\n", "3", "/", "6", ":", " ", "<", "@", "1", ">">>,
      <<"Y", "o", "u", "r", " ", "g", "r", "o", "u", "p", " ", "i", "s", " ", "o", "n", " ", "a", " ", "d", "a", "y", " ", "s", "t", "r", "e", "a", "k", "!", "\n", "3", "/", "6", ":", " ", "<", "@", "1", ">">>,
      <<"Y", "o", "u", "r", " ", "g", "r", "o", "u", "p", " ", "i", "s", " ", "o", "n", " ", "t", "h", "e", " ", "5", " ", "d", "a", "y", " ", "s", "t", "r", "e", "a", "k", "!", " ", "<", "@", "1", ">">>,
      <<"N", "O", "B", "O", "D", "Y", " ", "G", "O", "T", " ", "Y", "E", "S", "T", "E", "R", "D", "A", "Y", "'", "S", " ", "W", "O", "R", "D", "L", "E", " ", "<", "@", "1", ">">>,
      <<"N", "o", "b", "o", "d", "y", " ", "g", "o", "t", " ", "y", "e", "s", "t", "e", "r", "d", "a", "y", "s", " ", "W", "o", "r", "d", "l", "e", " ", "<", "@", "1", ">">> }

Contents == ResultsContents \cup NobodyContents \cup OtherContents \cup MarkerContents

\* ------------------------------------------------------------------ state

VARIABLES
    message,           \* the message handled last: its content and mentions,
                       \* the guild it is resolved in (or NoGuild) and the
                       \* outcomes of the fetch_member calls made for it
    last_results,      \* the WordleGameResult list parsed from that message
    last_lines,        \* the same results, line by line
    pc,                \* where the handler stands
    setup_user_stats,  \* user_stats of the /setup pass under way
    games_found,       \* games_found of the /setup pass under way
    scanned,           \* the Wordle bot messages that pass has read
    db,                \* the rows of the user_stats table, by primary key
    store,             \* the locals of the last store_user_stats_in_supabase call
    prev_local,        \* user_stats of the last store call that ran to its end
    supabase,          \* whether the Supabase client is configured
    now,               \* datetime.now(timezone.utc), in days
    tasks,             \* the on_message tasks: message, position, lock, results
    locks,             \* the asyncio.Lock objects created so far
    processing_locks,  \* the dict processing_locks: guild id to lock
    acquired,          \* the tasks that acquired a lock, in that order
    issued,            \* the increment_player_stats requests, in issue order
    derived            \* what the calls of calculate_statistics returned

vars == <<message, last_results, last_lines, pc, setup_user_stats, games_found,
          scanned, db, store, prev_local, supabase, now, tasks, locks,
          processing_locks, acquired, issued, derived>>

message_vars == <<message, last_results, last_lines>>

setup_vars == <<setup_user_stats, games_found, scanned>>

store_vars == <<db, store, prev_local>>

live_vars == <<tasks, locks, processing_locks, acquired, issued>>

NoStore ==
    [stage |-> "none", read_ok |-> FALSE, rescan |-> FALSE,
     existing_stats |-> EmptyMap, records |-> EmptyMap,
     added_count |-> 0, updated_count |-> 0, skipped_count |-> 0]

NoPrev == [known |-> FALSE, stats |-> EmptyMap]

AllAnswer == [k \in 1..MaxFetch |-> "answer"]

NoMessage == [content |-> <<>>, mentions |-> <<>>, guild |-> NoGuild,
              fetch |-> AllAnswer]

\* --------------------------------------------------- the parsers, applied

\* the messages a parser is applied to, with what they are resolved against
ParseInputs ==
    {[content |-> c, mentions |-> ms, guild |-> g, fetch |-> f] :
        c \in Contents, ms \in MentionLists, g \in Guilds, f \in Fetches}

InitParse ==
    /\ message \in ParseInputs
    /\ last_results = <<>>
    /\ last_lines = <<>>
    /\ pc = "ready"
    /\ setup_user_stats = EmptyMap
    /\ games_found = 0
    /\ scanned = 0
    /\ db = EmptyMap
    /\ store = NoStore
    /\ prev_local = NoPrev
    /\ supabase = TRUE
    /\ now = 1
    /\ tasks = <<>>
    /\ locks = <<>>
    /\ processing_locks = EmptyMap
    /\ acquired = <<>>
    /\ issued = <<>>
    /\ derived = <<>>

\* results = await parse_wordle_message_content(message)
ParseWordle ==
    /\ pc = "ready"
    /\ pc' = "wordle"
    /\ last_lines' = parse_wordle_lines(message.content, message.mentions,
                                        message.guild, message.fetch)
    /\ last_results' = parse_wordle_message_content(message.content, message.mentions,
                                                    message.guild, message.fetch)
    /\ UNCHANGED <<message, setup_vars, store_vars, supabase, now>>
    /\ UNCHANGED <<live_vars, derived>>

\* results = await parse_nobody_message_content(message)
ParseNobody ==
    /\ pc = "ready"
    /\ pc' = "nobody"
    /\ last_lines' = <<>>
    /\ last_results' = parse_nobody_message_content(message.content, message.mentions,
                                                    message.guild, message.fetch)
    /\ UNCHANGED <<message, setup_vars, store_vars, supabase, now>>
    /\ UNCHANGED <<live_vars, derived>>

\* lines 998-1019 of on_message: the message is handled as its content says,
\* by one parser or by none
Handle ==
    /\ pc = "ready"
    /\ pc' = dispatch(message.content)
    /\ last_lines' = IF pc' = "Results"
                     THEN parse_wordle_lines(message.content, message.mentions,
                                             message.guild, message.fetch)
                     ELSE <<>>
    /\ last_results' =
           IF pc' = "Results"
           THEN parse_wordle_message_content(message.content, message.mentions,
                                             message.guild, message.fetch)
           ELSE IF pc' = "NoWinner"
           THEN parse_nobody_message_content(message.content, message.mentions,
                                             message.guild, message.fetch)
           ELSE <<>>
    /\ UNCHANGED <<message, setup_vars, store_vars, supabase, now>>
    /\ UNCHANGED <<live_vars, derived>>

NextParse == ParseWordle \/ ParseNobody \/ Handle

SpecParse == InitParse /\ [][NextParse]_vars

\* ------------------------------------------------------- the /setup pass

\* the Wordle bot messages of the channel history a /setup pass may read,
\* resolved in the guild of the interaction after guild.chunk()
SetupContents ==
    { StreakLine \o <<"\n", "3", "/", "6", ":", " ", "<", "@", "1", ">", "\n", "X", "/", "6", ":", " ", "<", "@", "!", "2", ">">>,
      StreakLine \o <<"\n", "1", "/", "6", ":", " ", "<", "@", "1", ">">>,
      StreakLine \o <<"\n", "6", "/", "6", ":", " ", "<", "@", "1", ">", " ", "<", "@", "8", ">">>,
      NobodyLine \o <<" ", "<", "@", "1", ">", " ", "@", "J", "o">>,
      <<"h", "e", "l", "l", "o", " ", "<", "@", "1", ">">> }

SetupInputs ==
    {[content |-> c, mentions |-> <<>>, guild |-> GuildA, fetch |-> f] :
        c \in SetupContents, f \in {AllAnswer}}

\* what lines 1185-1200 of setup find in each of them: the shape of the
\* message, and the results lines 673 and 647 parse from it
SetupParsed ==
    [m \in SetupInputs |->
        [streak |-> m.content # <<>> /\ is_streak_message(m.content),
         nobody |-> m.content # <<>> /\ is_nobody_got_message(m.content),
         wordle_lines |-> parse_wordle_lines(m.content, m.mentions, m.guild, m.fetch),
         wordle |-> parse_wordle_message_content(m.content, m.mentions, m.guild,
                                                 m.fetch),
         nobody_results |-> parse_nobody_message_content(m.content, m.mentions,
                                                         m.guild, m.fetch)]]

Init ==
    /\ message = NoMessage
    /\ last_results = <<>>
    /\ last_lines = <<>>
    /\ pc = "idle"
    /\ setup_user_stats = EmptyMap
    /\ games_found = 0
    /\ scanned = 0
    /\ db = EmptyMap
    /\ store = NoStore
    /\ prev_local = NoPrev
    /\ supabase \in BOOLEAN
    /\ now = 1
    /\ tasks = <<>>
    /\ locks = <<>>
    /\ processing_locks = EmptyMap
    /\ acquired = <<>>
    /\ issued = <<>>
    /\ derived = <<>>

\* lines 1170-1174 of setup: a pass starts with empty accumulators
SetupBegin ==
    /\ pc = "idle"
    /\ pc' = "scan"
    /\ setup_user_stats' = EmptyMap
    /\ games_found' = 0
    /\ scanned' = 0
    /\ store' = NoStore
    /\ UNCHANGED <<message_vars, db, prev_local, supabase, now>>
    /\ UNCHANGED <<live_vars, derived>>

\* lines 1185-1191 of setup: a message with the streak marker
SetupWordle(m) ==
    /\ pc = "scan"
    /\ scanned < MaxHistory
    /\ SetupParsed[m].streak
    /\ message' = m
    /\ last_lines' = SetupParsed[m].wordle_lines
    /\ last_results' = SetupParsed[m].wordle
    /\ setup_user_stats' = process_wordle_message(last_results', setup_user_stats)
    /\ games_found' = games_found + 1
    /\ scanned' = scanned + 1
    /\ UNCHANGED <<pc, store_vars, supabase, now>>
    /\ UNCHANGED <<live_vars, derived>>

\* lines 1192-1197 of setup: a message with the nobody marker and no streak
SetupNobody(m) ==
    /\ pc = "scan"
    /\ scanned < MaxHistory
    /\ ~SetupParsed[m].streak
    /\ SetupParsed[m].nobody
    /\ message' = m
    /\ last_lines' = <<>>
    /\ last_results' = SetupParsed[m].nobody_results
    /\ setup_user_stats' = process_nobody_got_wordle_message(last_results', setup_user_stats)
    /\ games_found' = games_found + 1
    /\ scanned' = scanned + 1
    /\ UNCHANGED <<pc, store_vars, supabase, now>>
    /\ UNCHANGED <<live_vars, derived>>

\* lines 1198-1200 of setup: a message of neither shape is passed over
SetupSkip(m) ==
    /\ pc = "scan"
    /\ scanned < MaxHistory
    /\ ~SetupParsed[m].streak
    /\ ~SetupParsed[m].nobody
    /\ message' = m
    /\ last_lines' = <<>>
    /\ last_results' = <<>>
    /\ scanned' = scanned + 1
    /\ UNCHANGED <<pc, setup_user_stats, games_found, store_vars, supabase, now>>
    /\ UNCHANGED <<live_vars, derived>>

\* lines 1210-1214 of setup: the history held no game, nothing is stored
SetupEndEmpty ==
    /\ pc = "scan"
    /\ games_found = 0
    /\ pc' = "idle"
    /\ UNCHANGED <<message_vars, setup_vars, store_vars, supabase, now>>
    /\ UNCHANGED <<live_vars, derived>>

\* lines 744-751 of store_user_stats_in_supabase, called at line 1204: the
\* call returns at once without a client or without statistics
StoreReturn ==
    /\ pc = "scan"
    /\ games_found > 0
    /\ IF supabase THEN setup_user_stats = EmptyMap ELSE TRUE
    /\ pc' = "idle"
    /\ store' = [NoStore EXCEPT !.stage = "returned"]
    /\ UNCHANGED <<message_vars, setup_vars, db, prev_local, supabase, now>>
    /\ UNCHANGED <<live_vars, derived>>

\* lines 753-818 of store_user_stats_in_supabase, called at line 1204: the
\* read of the persisted records, which succeeds or fails, and the loop that
\* builds records; with no record the call ends here
StoreClassify(read_ok) ==
    /\ pc = "scan"
    /\ games_found > 0
    /\ supabase
    /\ setup_user_stats # EmptyMap
    /\ LET stats_summary == calculate_statistics(setup_user_stats)
           existing_stats == get_user_stats_from_supabase(db, DOMAIN stats_summary,
                                                          supabase, read_ok)
           classified == classify(stats_summary, existing_stats,
                                  current_timestamp_of(now))
       IN  /\ store' = [stage |-> "classified",
                        read_ok |-> read_ok,
                        rescan |-> prev_local.known /\ prev_local.stats = setup_user_stats,
                        existing_stats |-> existing_stats,
                        records |-> classified.records,
                        added_count |-> classified.added_count,
                        updated_count |-> classified.updated_count,
                        skipped_count |-> classified.skipped_count]
           /\ pc' = IF classified.records # EmptyMap THEN "upsert" ELSE "idle"
           /\ prev_local' = IF classified.records # EmptyMap THEN prev_local
                            ELSE [known |-> TRUE, stats |-> setup_user_stats]
    /\ UNCHANGED <<message_vars, setup_vars, db, supabase, now>>
    /\ UNCHANGED <<live_vars, derived>>

\* lines 821-834 of store_user_stats_in_supabase: the upsert of records, which
\* succeeds or raises; the error is logged and the records are not stored
StoreUpsert(upsert_ok) ==
    /\ pc = "upsert"
    /\ pc' = "idle"
    /\ db' = IF upsert_ok THEN upsert(db, store.records) ELSE db
    /\ store' = [store EXCEPT !.stage = IF upsert_ok THEN "stored" ELSE "failed"]
    /\ prev_local' = IF upsert_ok THEN [known |-> TRUE, stats |-> setup_user_stats]
                     ELSE NoPrev
    /\ UNCHANGED <<message_vars, setup_vars, supabase, now>>
    /\ UNCHANGED <<live_vars, derived>>

Next ==
    \/ SetupBegin
    \/ \E m \in SetupInputs : SetupWordle(m)
    \/ \E m \in SetupInputs : SetupNobody(m)
    \/ \E m \in SetupInputs : SetupSkip(m)
    \/ SetupEndEmpty
    \/ StoreReturn
    \/ \E read_ok \in BOOLEAN : StoreClassify(read_ok)
    \/ \E upsert_ok \in BOOLEAN : StoreUpsert(upsert_ok)

Spec == Init /\ [][Next]_vars

\* ------------------------------------------------------- live messages

\* the on_message tasks that run concurrently
MaxTasks == 2

\* line 26: the id of the Wordle bot, in digits
WORDLE_BOT_ID == "1211781489931452447"

\* the author of the announcements
WordleBot == [id |-> WORDLE_BOT_ID, name |-> "Wordle"]

\* bot.user: the account of this program, here one that is named as the
\* Wordle bot is
BotUser == [id |-> "99", name |-> "Wordle"]

\* is_wordle_bot_message with no test of the author
is_wordle_bot_message_any(author) == TRUE

\* is_wordle_bot_message(message), for the author of the message
is_wordle_bot_message(author) ==
    \/ author.id = WORDLE_BOT_ID
    \/ author.name = "Wordle"

\* the Wordle bot messages that arrive: in guild 1 a result and a nobody
\* message, in guild 2 a result whose second player is fetched and a streak
\* line without results, and a result outside any guild
LiveInputs ==
    << [author |-> WordleBot, created_at |-> 1,
        guild_id |-> 1, guild |-> GuildA, mentions |-> <<>>, fetch |-> AllAnswer,
        content |-> StreakLine \o <<"\n", "3", "/", "6", ":", " ", "<", "@", "1", ">">>],
       [author |-> WordleBot, created_at |-> 0,
        guild_id |-> 1, guild |-> GuildA, mentions |-> <<>>, fetch |-> AllAnswer,
        content |-> NobodyLine \o <<" ", "<", "@", "1", ">", " ", "<", "@", "!", "2", ">">>],
       [author |-> WordleBot, created_at |-> 2,
        guild_id |-> 2, guild |-> GuildB, mentions |-> <<>>, fetch |-> AllAnswer,
        content |-> StreakLine \o <<"\n", "X", "/", "6", ":", " ", "<", "@", "1", ">", " ", "<", "@", "5", ">">>],
       [author |-> WordleBot, created_at |-> 1,
        guild_id |-> 2, guild |-> GuildB, mentions |-> <<>>, fetch |-> AllAnswer,
        content |-> StreakLine],
       [author |-> WordleBot, created_at |-> 1,
        guild_id |-> 0, guild |-> NoGuild, mentions |-> <<>>, fetch |-> AllAnswer,
        content |-> StreakLine \o <<"\n", "3", "/", "6", ":", " ", "<", "@", "1", ">">>],
       [author |-> [id |-> "42", name |-> "Wordle"], created_at |-> 1,
        guild_id |-> 1, guild |-> GuildA, mentions |-> <<>>, fetch |-> AllAnswer,
        content |-> StreakLine \o <<"\n", "2", "/", "6", ":", " ", "<", "@", "!", "2", ">">>],
       [author |-> [id |-> "42", name |-> "ann"], created_at |-> 1,
        guild_id |-> 1, guild |-> GuildA, mentions |-> <<>>, fetch |-> AllAnswer,
        content |-> StreakLine \o <<"\n", "3", "/", "6", ":", " ", "<", "@", "1", ">">>],
       [author |-> BotUser, created_at |-> 1,
        guild_id |-> 1, guild |-> GuildA, mentions |-> <<>>, fetch |-> AllAnswer,
        content |-> StreakLine \o <<"\n", "3", "/", "6", ":", " ", "<", "@", "1", ">">>],
       [author |-> WordleBot, created_at |-> 1,
        guild_id |-> 1, guild |-> GuildA, mentions |-> <<>>, fetch |-> AllAnswer,
        content |-> <<>>],
       [author |-> WordleBot, created_at |-> 1,
        guild_id |-> 1, guild |-> GuildA, mentions |-> <<>>, fetch |-> AllAnswer,
        content |-> <<"3", "/", "6", ":", " ", "<", "@", "1", ">">>] >>

\* lines 282-288 and 499-505: a tag of the content is fetched from the
\* server, which suspends the task
awaits_fetch(m) ==
    /\ m.guild.present
    /\ \E k \in 1..Len(FindMentionIds(m.content)) :
           LET user_id == ParseInt(FindMentionIds(m.content)[k])
           IN  /\ get_by_id(m.mentions, user_id) = NoUser
               /\ get_member(m.guild, user_id) = NoUser

\* lines 998-1019 of on_message for each of them: the two searches, and the
\* results of the parser the message is given to
LiveParsed ==
    [i \in 1..Len(LiveInputs) |->
        LET m == LiveInputs[i]
            streak == m.content # <<>> /\ is_streak_message(m.content)
            nobody == m.content # <<>> /\ is_nobody_got_message(m.content)
        IN  [handled |-> /\ m.author # BotUser
                         /\ is_wordle_bot_message(m.author)
                         /\ (streak \/ nobody)
                         /\ m.guild.present,
             awaits_fetch |-> awaits_fetch(m),
             results |->
                 IF streak
                 THEN parse_wordle_message_content(m.content, m.mentions,
                                                   m.guild, m.fetch)
                 ELSE IF nobody
                 THEN parse_nobody_message_content(m.content, m.mentions,
                                                   m.guild, m.fetch)
                 ELSE <<>>]]

\* asyncio.Lock(): not locked, nobody waiting
NewLock == [locked |-> FALSE, waiters |-> <<>>]

\* get_guild_lock that makes a lock of its own at every call
get_guild_lock_fresh(registry, lock_count, guild_id) ==
    [registry |-> [g \in DOMAIN registry \cup {guild_id} |->
                      IF g = guild_id THEN lock_count + 1 ELSE registry[g]],
     lock |-> lock_count + 1,
     created |-> TRUE]

\* get_guild_lock that keeps one lock for all guilds
get_guild_lock_shared(registry, lock_count, guild_id) ==
    IF registry # EmptyMap
    THEN [registry |-> [g \in DOMAIN registry \cup {guild_id} |-> 1],
          lock |-> 1, created |-> FALSE]
    ELSE [registry |-> (guild_id :> lock_count + 1),
          lock |-> lock_count + 1, created |-> TRUE]

\* get_guild_lock(guild_id): registry is processing_locks, lock_count the
\* number of locks made so far; the lock of the guild, made at the first call
get_guild_lock(registry, lock_count, guild_id) ==
    IF guild_id \in DOMAIN registry
    THEN [registry |-> registry, lock |-> registry[guild_id], created |-> FALSE]
    ELSE [registry |-> registry @@ (guild_id :> lock_count + 1),
          lock |-> lock_count + 1,
          created |-> TRUE]

\* the lock after an acquire that does not mark it as taken
acquire_unmarked(lock) == lock

\* the lock of line 1009 once "async with lock" has entered
acquire(lock) == [lock EXCEPT !.locked = TRUE]

\* the lock with "async with lock" left and the lock kept
release_kept(lock) == lock

\* the lock when "async with lock" is left
release(lock) == [lock EXCEPT !.locked = FALSE]

\* update_user_stats_atomic with the name of the player left out
update_user_stats_atomic_unnamed(configured, res, message_date) ==
    [sent |-> configured,
     p_user_id |-> FormatInt(res.user_id), p_username |-> FormatInt(res.user_id),
     p_won |-> res.won, p_guesses |-> res.guesses,
     p_message_date |-> message_date]

\* lines 190-204 of update_user_stats_atomic(result, message_date): the
\* request that is sent, none when the client is not configured
update_user_stats_atomic(configured, res, message_date) ==
    [sent |-> configured,
     p_user_id |-> FormatInt(res.user_id), p_username |-> res.username,
     p_won |-> res.won, p_guesses |-> res.guesses,
     p_message_date |-> message_date]

\* execute_supabase without the check of line 107
execute_supabase_unchecked(configured, response) ==
    [called |-> TRUE, returned |-> response]

\* execute_supabase(func): whether func is called, and what is returned
execute_supabase(configured, response) ==
    IF ~configured THEN [called |-> FALSE, returned |-> "None"]
    ELSE [called |-> TRUE, returned |-> response]

\* the stored procedure increment_player_stats of the database: the row of
\* the player gets one more game, a win or a loss and the guesses, or is
\* made when the player has none
increment_player_stats(table, params, message_date) ==
    LET rows == {key \in DOMAIN table : table[key].user_id = params.p_user_id}
        key == IF rows # {} THEN CHOOSE r \in rows : TRUE
               ELSE generate_uuid_from_user_id(ParseInt(params.p_user_id))
        old == IF rows # {} THEN table[key]
               ELSE [total_games |-> 0, total_guesses |-> 0, wins |-> 0, losses |-> 0]
        total_games == old.total_games + 1
        total_guesses == old.total_guesses + params.p_guesses
        wins == old.wins + (IF params.p_won THEN 1 ELSE 0)
        losses == old.losses + (IF params.p_won THEN 0 ELSE 1)
        row == [id |-> key,
                user_id |-> params.p_user_id,
                username |-> params.p_username,
                total_games |-> total_games,
                total_guesses |-> total_guesses,
                wins |-> wins,
                losses |-> losses,
                win_rate |-> Round2(rate_of(wins, total_games)),
                loss_rate |-> Round2(rate_of(losses, total_games)),
                avg_guess |-> Round2(average_of(total_guesses, total_games)),
                last_updated_date |-> message_date]
    IN  [k \in DOMAIN table \cup {key} |-> IF k = key THEN row ELSE table[k]]

\* user_stats of a /setup pass that has read the first two messages of
\* SetupContents's kind: two games of player 1, one of player 2
ScannedStats ==
    process_wordle_message(
        parse_wordle_message_content(StreakLine \o <<"\n", "1", "/", "6", ":", " ", "<", "@", "1", ">">>,
                                     <<>>, GuildA, AllAnswer),
        process_wordle_message(
            parse_wordle_message_content(StreakLine \o <<"\n", "3", "/", "6", ":", " ", "<", "@", "1", ">", "\n", "X", "/", "6", ":", " ", "<", "@", "!", "2", ">">>,
                                         <<>>, GuildA, AllAnswer),
            EmptyMap))

\* the table after an earlier /setup pass stored one game of player 1
PriorTable ==
    upsert(EmptyMap,
           classify(calculate_statistics(
                        process_wordle_message(
                            parse_wordle_message_content(
                                StreakLine \o <<"\n", "1", "/", "6", ":", " ", "<", "@", "1", ">">>,
                                <<>>, GuildA, AllAnswer),
                            EmptyMap)),
                    EmptyMap, 0).records)

\* the task of a message that has just arrived
NewTask(i) ==
    [msg |-> i, pc |-> "new", lock |-> 0, waited |-> FALSE, results |-> <<>>,
     k |-> 1]

\* the tasks are numbered in the order of their messages in LiveInputs
InitLive ==
    /\ tasks \in {ts \in [1..MaxTasks -> {NewTask(i) : i \in 1..Len(LiveInputs)}] :
                     \A t \in 1..(MaxTasks - 1) : ts[t].msg <= ts[t + 1].msg}
    /\ locks = <<>>
    /\ processing_locks = EmptyMap
    /\ acquired = <<>>
    /\ issued = <<>>
    /\ derived = <<>>
    /\ message = NoMessage
    /\ last_results = <<>>
    /\ last_lines = <<>>
    /\ pc = "scan"
    /\ setup_user_stats = ScannedStats
    /\ games_found = 2
    /\ scanned = 2
    /\ db = PriorTable
    /\ store = NoStore
    /\ prev_local = NoPrev
    /\ supabase \in BOOLEAN
    /\ now = 1

bulk_vars == <<message_vars, pc, setup_vars, store, prev_local, supabase, now,
               derived>>

\* lines 993-1009 of on_message: the message is of neither shape or of no
\* guild and is passed over, or the lock of its guild is taken at once, or
\* the task waits for it
Arrive(t) ==
    /\ tasks[t].pc = "new"
    /\ LET m == LiveInputs[tasks[t].msg]
           got == get_guild_lock(processing_locks, Len(locks), m.guild_id)
           all == IF got.created THEN Append(locks, NewLock) ELSE locks
       IN  IF ~LiveParsed[tasks[t].msg].handled
           THEN /\ tasks' = [tasks EXCEPT ![t].pc = "ignored"]
                /\ UNCHANGED <<locks, processing_locks, acquired>>
           ELSE /\ processing_locks' = got.registry
                /\ IF ~all[got.lock].locked /\ all[got.lock].waiters = <<>>
                   THEN /\ locks' = [all EXCEPT ![got.lock] = acquire(@)]
                        /\ tasks' = [tasks EXCEPT ![t].pc = "locked",
                                                  ![t].lock = got.lock]
                        /\ acquired' = Append(acquired, t)
                   ELSE /\ locks' = [all EXCEPT ![got.lock].waiters = Append(@, t)]
                        /\ tasks' = [tasks EXCEPT ![t].pc = "waiting",
                                                  ![t].lock = got.lock,
                                                  ![t].waited = TRUE]
                        /\ UNCHANGED acquired
    /\ UNCHANGED <<issued, db, bulk_vars>>

\* line 1009: the first waiter of a lock that was released takes it
Resume(t) ==
    /\ tasks[t].pc = "waiting"
    /\ ~locks[tasks[t].lock].locked
    /\ Head(locks[tasks[t].lock].waiters) = t
    /\ locks' = [locks EXCEPT ![tasks[t].lock] =
                    acquire([@ EXCEPT !.waiters = Tail(@)])]
    /\ tasks' = [tasks EXCEPT ![t].pc = "locked"]
    /\ acquired' = Append(acquired, t)
    /\ UNCHANGED <<processing_locks, issued, db, bulk_vars>>

\* lines 1012-1016: the parser runs, up to its results or up to the
\* fetch_member it awaits
Parse(t) ==
    /\ tasks[t].pc = "locked"
    /\ tasks' = [tasks EXCEPT
                    ![t].pc = IF LiveParsed[tasks[t].msg].awaits_fetch
                              THEN "fetching" ELSE "parsed",
                    ![t].results = IF LiveParsed[tasks[t].msg].awaits_fetch
                                   THEN <<>> ELSE LiveParsed[tasks[t].msg].results]
    /\ UNCHANGED <<locks, processing_locks, acquired, issued, db, bulk_vars>>

\* lines 288 and 505: fetch_member answers and the parser ends
FetchReturns(t) ==
    /\ tasks[t].pc = "fetching"
    /\ tasks' = [tasks EXCEPT ![t].pc = "parsed",
                              ![t].results = LiveParsed[tasks[t].msg].results]
    /\ UNCHANGED <<locks, processing_locks, acquired, issued, db, bulk_vars>>

\* lines 1028-1029 and 190-204: update_user_stats_atomic for the next result:
\* the request is sent, or nothing is when the client is not configured
IssueIncrement(t) ==
    /\ tasks[t].pc = "parsed"
    /\ tasks[t].k <= Len(tasks[t].results)
    /\ LET request == update_user_stats_atomic(
                          supabase, tasks[t].results[tasks[t].k],
                          LiveInputs[tasks[t].msg].created_at)
       IN  IF request.sent /\ execute_supabase(supabase, "response").called
           THEN /\ issued' = Append(issued, [task |-> t, k |-> tasks[t].k,
                                             request |-> request])
                /\ tasks' = [tasks EXCEPT ![t].pc = "inflight"]
           ELSE /\ tasks' = [tasks EXCEPT ![t].k = @ + 1]
                /\ UNCHANGED issued
    /\ UNCHANGED <<locks, processing_locks, acquired, db, bulk_vars>>

\* lines 200-212: the procedure has run in the database, or it has not, the
\* call having raised, which is logged; the loop goes on
IncrementReturns(t, outcome) ==
    /\ tasks[t].pc = "inflight"
    /\ db' = IF outcome = "applied"
             THEN increment_player_stats(
                      db, update_user_stats_atomic(
                              supabase, tasks[t].results[tasks[t].k],
                              LiveInputs[tasks[t].msg].created_at),
                      LiveInputs[tasks[t].msg].created_at)
             ELSE db
    /\ tasks' = [tasks EXCEPT ![t].pc = "parsed", ![t].k = @ + 1]
    /\ UNCHANGED <<locks, processing_locks, acquired, issued, bulk_vars>>

\* lines 1012-1016 and 1036-1040: the parser raises, at once or when its
\* fetch_member returns, and the handler logs the exception
ParseRaises(t) ==
    /\ tasks[t].pc \in {"locked", "fetching"}
    /\ tasks' = [tasks EXCEPT ![t].pc = "raised"]
    /\ UNCHANGED <<locks, processing_locks, acquired, issued, db, bulk_vars>>

\* lines 1018-1019, 1031-1035 and 1036-1040: without results, after the last
\* result, or after an exception, the handler leaves "async with lock"
Release(t) ==
    /\ \/ tasks[t].pc = "parsed" /\ tasks[t].k > Len(tasks[t].results)
       \/ tasks[t].pc = "raised"
    /\ locks' = [locks EXCEPT ![tasks[t].lock] = release(@)]
    /\ tasks' = [tasks EXCEPT ![t].pc = "done"]
    /\ UNCHANGED <<processing_locks, acquired, issued, db, bulk_vars>>

\* the procedure ran, or the call raised or was turned down as a duplicate
IncrementOutcomes == {"applied", "error"}

NextLive ==
    \/ \E t \in 1..MaxTasks : Arrive(t)
    \/ \E t \in 1..MaxTasks : Resume(t)
    \/ \E t \in 1..MaxTasks : Parse(t)
    \/ \E t \in 1..MaxTasks : FetchReturns(t)
    \/ \E t \in 1..MaxTasks : IssueIncrement(t)
    \/ \E t \in 1..MaxTasks : \E outcome \in IncrementOutcomes :
           IncrementReturns(t, outcome)
    \/ \E t \in 1..MaxTasks : ParseRaises(t)
    \/ \E t \in 1..MaxTasks : Release(t)
    \/ StoreReturn
    \/ \E read_ok \in BOOLEAN : StoreClassify(read_ok)
    \/ \E upsert_ok \in BOOLEAN : StoreUpsert(upsert_ok)

SpecLive == InitLive /\ [][NextLive]_vars

\* the steps of the task of one message that the event loop takes when it
\* can: every step of the handler but the raising of an exception
Step(t) ==
    \/ Arrive(t)
    \/ Resume(t)
    \/ Parse(t)
    \/ FetchReturns(t)
    \/ IssueIncrement(t)
    \/ \E outcome \in IncrementOutcomes : IncrementReturns(t, outcome)
    \/ Release(t)

\* the handlers of the live messages alone, with no /setup at their side
NextTasks ==
    \/ \E t \in 1..MaxTasks : Step(t)
    \/ \E t \in 1..MaxTasks : ParseRaises(t)

\* the event loop runs every task that is ready, and every request that is
\* awaited returns or raises
SpecLiveFair ==
    /\ InitLive
    /\ [][NextTasks]_vars
    /\ \A t \in 1..MaxTasks : WF_vars(Step(t))

\* ---------------------------------------------------------- the statistics

\* the calls of calculate_statistics made on one accumulator map
MaxCalls == 2

\* accumulators of one player: the one initialize_user_stats makes, and some
\* that process_wordle_message and process_nobody_got_wordle_message build
Accumulators ==
    { [total_games |-> 0, total_guesses |-> 0, wins |-> 0, losses |-> 0],
      [total_games |-> 1, total_guesses |-> 3, wins |-> 1, losses |-> 0],
      [total_games |-> 1, total_guesses |-> 1, wins |-> 1, losses |-> 0],
      [total_games |-> 1, total_guesses |-> 6, wins |-> 0, losses |-> 1],
      [total_games |-> 2, total_guesses |-> 9, wins |-> 1, losses |-> 1],
      [total_games |-> 2, total_guesses |-> 5, wins |-> 2, losses |-> 0],
      [total_games |-> 3, total_guesses |-> 10, wins |-> 2, losses |-> 1] }

\* the accumulator maps of the players Ann and Jo, of both, or of nobody
AccumulatorMaps ==
    UNION {[ids -> Accumulators] : ids \in SUBSET {Ann.id, Jo.id}}

\* user_stats with the user_id and username of each entry
StatsInputs ==
    { [user_id \in DOMAIN acc |->
          [user_id |-> user_id,
           username |-> IF user_id = Ann.id THEN Ann.name ELSE Jo.name,
           total_games |-> acc[user_id].total_games,
           total_guesses |-> acc[user_id].total_guesses,
           wins |-> acc[user_id].wins,
           losses |-> acc[user_id].losses]] : acc \in AccumulatorMaps }

InitStats ==
    /\ message = NoMessage
    /\ last_results = <<>>
    /\ last_lines = <<>>
    /\ pc = "stats"
    /\ setup_user_stats \in StatsInputs
    /\ games_found = 0
    /\ scanned = 0
    /\ db = EmptyMap
    /\ store = NoStore
    /\ prev_local = NoPrev
    /\ supabase = TRUE
    /\ now = 1
    /\ tasks = <<>>
    /\ locks = <<>>
    /\ processing_locks = EmptyMap
    /\ acquired = <<>>
    /\ issued = <<>>
    /\ derived = <<>>

\* stats_summary = calculate_statistics(user_stats): the loop of lines 700-725
\* reads user_stats and fills a dict of its own, which it returns
Derive ==
    /\ pc = "stats"
    /\ Len(derived) < MaxCalls
    /\ derived' = Append(derived, [user_stats |-> setup_user_stats,
                                   stats_summary |->
                                       calculate_statistics(setup_user_stats)])
    /\ UNCHANGED <<message_vars, pc, setup_vars, store_vars, supabase, now,
                   live_vars>>

NextStats == Derive

SpecStats == InitStats /\ [][NextStats]_vars

\* C14: every call of calculate_statistics leaves the accumulator map as it
\* was, returns for each of its players the four counters as they are and,
\* for a player without games, 0 as win_rate, loss_rate and avg_guess; two
\* calls on the same map return the same.
C14_PureDerivation ==
    \A i \in 1..Len(derived) :
        /\ derived[i].user_stats = setup_user_stats
        /\ DOMAIN derived[i].stats_summary = DOMAIN setup_user_stats
        /\ \A user_id \in DOMAIN setup_user_stats :
               LET stats == setup_user_stats[user_id]
                   summary == derived[i].stats_summary[user_id]
               IN  /\ summary.total_games = stats.total_games
                   /\ summary.total_guesses = stats.total_guesses
                   /\ summary.wins = stats.wins
                   /\ summary.losses = stats.losses
                   /\ stats.total_games = 0 =>
                          /\ summary.win_rate = Ratio(0, 1)
                          /\ summary.loss_rate = Ratio(0, 1)
                          /\ summary.avg_guess = Ratio(0, 1)
                          /\ Round2(summary.win_rate) = 0
        /\ \A j \in 1..Len(derived) :
               derived[j].stats_summary = derived[i].stats_summary

\* calculate_statistics was called twice on a map with a player without
\* games and a player with games
C14_Witness ==
    /\ Len(derived) = 2
    /\ \E p, q \in DOMAIN setup_user_stats :
           /\ setup_user_stats[p].total_games = 0
           /\ setup_user_stats[q].total_games > 0
           /\ derived[2].stats_summary[q].avg_guess # Ratio(0, 1)

\* --------------------------------------------- the lookup of a tagged id

\* Ann as a user of the platform, outside a guild: no nickname
AnnUser == [id |-> 1, name |-> <<"a", "n", "n">>, display_name |-> <<"a", "n", "n">>]

\* the ids a tag may hold: of members, of a member outside the cache, of nobody
TaggedIds == {Ann.id, Jo.id, JoSmith.id, Zed.id, 8}

\* lookup_member with the member cache asked before message.mentions
lookup_member_cache_first(user_id, mentions, guild, outcome) ==
    IF guild.present /\ get_member(guild, user_id) # NoUser
    THEN [user |-> get_member(guild, user_id), tried |-> <<"get_member">>]
    ELSE IF get_by_id(mentions, user_id) # NoUser
    THEN [user |-> get_by_id(mentions, user_id),
          tried |-> <<"get_member", "mentions">>]
    ELSE IF ~guild.present
    THEN [user |-> NoUser, tried |-> <<"mentions">>]
    ELSE [user |-> fetch_member(guild, user_id, outcome).user,
          tried |-> <<"get_member", "mentions", "fetch_member">>]

\* lines 275-310 and 490-528: the lookups made for one tagged id, in the
\* order they are made, and the user they give, NoUser when none does
lookup_member(user_id, mentions, guild, outcome) ==
    IF get_by_id(mentions, user_id) # NoUser
    THEN [user |-> get_by_id(mentions, user_id), tried |-> <<"mentions">>]
    ELSE IF ~guild.present
    THEN [user |-> NoUser, tried |-> <<"mentions">>]
    ELSE IF get_member(guild, user_id) # NoUser
    THEN [user |-> get_member(guild, user_id),
          tried |-> <<"mentions", "get_member">>]
    ELSE [user |-> fetch_member(guild, user_id, outcome).user,
          tried |-> <<"mentions", "get_member", "fetch_member">>]

LookupInputs ==
    {[content |-> <<>>, mentions |-> ms, guild |-> g, fetch |-> f] :
        ms \in MentionLists \cup {<<AnnUser>>, <<Jo, AnnUser>>},
        g \in Guilds, f \in Fetches}

InitLookup ==
    /\ message \in LookupInputs
    /\ last_results = <<>>
    /\ last_lines = <<>>
    /\ pc = "lookup"
    /\ setup_user_stats = EmptyMap
    /\ games_found = 0
    /\ scanned = 0
    /\ db = EmptyMap
    /\ store = NoStore
    /\ prev_local = NoPrev
    /\ supabase = TRUE
    /\ now = 1
    /\ tasks = <<>>
    /\ locks = <<>>
    /\ processing_locks = EmptyMap
    /\ acquired = <<>>
    /\ issued = <<>>
    /\ derived = <<>>

\* one turn of the loop of lines 487-536 for the tag of user_id, the first
\* of its line: the lookups made, and what the loop has after it
Lookup(user_id) ==
    /\ pc = "lookup"
    /\ derived = <<>>
    /\ derived' =
           <<[user_id |-> user_id,
              lookup |-> lookup_member(user_id, message.mentions, message.guild,
                                       message.fetch[1]),
              resolved |-> resolve_mentions(
                               <<FormatInt(user_id)>>, 1, message.mentions,
                               message.guild, message.fetch,
                               [user_objects |-> <<>>,
                                unresolved_user_ids |-> <<>>, n |-> 0])]>>
    /\ UNCHANGED <<message_vars, pc, setup_vars, store_vars, supabase, now,
                   live_vars>>

NextLookup == \E user_id \in TaggedIds : Lookup(user_id)

SpecLookup == InitLookup /\ [][NextLookup]_vars

\* the id is in the mention list of the message
InMentions(id) == \E k \in 1..Len(message.mentions) : message.mentions[k].id = id

\* the id is in the member cache of the guild of the message
InCache(id) ==
    /\ message.guild.present
    /\ \E k \in 1..Len(message.guild.members) : message.guild.members[k].id = id

\* the first entry of a list with the id
EntryOf(seq, id) ==
    seq[CHOOSE k \in 1..Len(seq) :
            seq[k].id = id /\ \A j \in 1..(k - 1) : seq[j].id # id]

\* C23: for a tagged id the mention list is asked first; the member cache is
\* asked only when the mention list has no entry for the id, the remote fetch
\* is made only when the cache has none either; the first lookup that finds
\* the id gives the identity, and the loop of the parser takes that identity
\* and counts a fetch only when one was made.
C23_LookupOrder ==
    \A i \in 1..Len(derived) :
        LET id == derived[i].user_id
            tried == derived[i].lookup.tried
            user == derived[i].lookup.user
            fetched == /\ message.fetch[1] = "answer"
                       /\ \E k \in 1..Len(message.guild.remote) :
                              message.guild.remote[k].id = id
        IN  /\ tried \in {<<"mentions">>, <<"mentions", "get_member">>,
                          <<"mentions", "get_member", "fetch_member">>}
            /\ Len(tried) >= 2 <=> (~InMentions(id) /\ message.guild.present)
            /\ Len(tried) = 3 <=>
                   (~InMentions(id) /\ message.guild.present /\ ~InCache(id))
            /\ user = IF InMentions(id) THEN EntryOf(message.mentions, id)
                      ELSE IF InCache(id) THEN EntryOf(message.guild.members, id)
                      ELSE IF message.guild.present /\ fetched
                      THEN EntryOf(message.guild.remote, id)
                      ELSE NoUser
            /\ derived[i].resolved.user_objects =
                   (IF user = NoUser THEN <<>> ELSE <<user>>)
            /\ derived[i].resolved.n = (IF Len(tried) = 3 THEN 1 ELSE 0)

\* an id that the mention list and the member cache both hold, with
\* different display names, was looked up
C23_Witness ==
    /\ Len(derived) = 1
    /\ InMentions(derived[1].user_id)
    /\ InCache(derived[1].user_id)
    /\ EntryOf(message.mentions, derived[1].user_id)
           # EntryOf(message.guild.members, derived[1].user_id)
    /\ derived[1].resolved.user_objects # <<>>

\* ------------------------------------------- the match of one candidate

\* members whose names meet: the display name of one is the username of
\* another, and names that differ in letter case only
Quin == [id |-> 9, name |-> <<"q">>, display_name |-> <<"X">>]

Max == [id |-> 6, name |-> <<"M", "a", "x">>, display_name |-> <<"B", "o", "s", "s">>]

Xavier == [id |-> 7, name |-> <<"x">>, display_name |-> <<"M", "a", "x">>]

\* members whose names begin with digits
Twelve == [id |-> 4, name |-> <<"1", "2">>, display_name |-> <<"1", "2">>]

TwelveJo == [id |-> 10, name |-> <<"t", "w", "e", "l", "v", "e", "j", "o">>, display_name |-> <<"1", "2", " ", "J", "o">>]

\* a guild with them in the cache
NumberGuild ==
    [present |-> TRUE, members |-> <<Twelve, TwelveJo, Jo>>, remote |-> <<>>]

\* the guilds with these three members in the cache, in every order
NameGuilds ==
    {[present |-> TRUE, members |-> order, remote |-> <<>>] :
        order \in {o \in [1..3 -> {Quin, Max, Xavier}] :
                      \A i, j \in 1..3 : i # j => o[i] # o[j]}}

\* the candidates: one word or two after an "@"
Candidates ==
    { <<"M", "a", "x">>,
      <<"m", "a", "x">>,
      <<"M", "A", "X">>,
      <<"B", "o", "s", "s">>,
      <<"x">>,
      <<"X">>,
      <<"q">>,
      <<"J", "o">>,
      <<"j", "o">>,
      <<"J", "O">>,
      <<"A", "n", "n">>,
      <<"n", "o", "b", "o", "d", "y">>,
      <<"J", "o", " ", "S", "m", "i", "t", "h">>,
      <<"1", "2">>,
      <<"1", "2", " ", "J", "o">>,
      <<"1", "2", " ", "3", "4">> }

FindInputs ==
    {[content |-> c, mentions |-> <<>>, guild |-> g, fetch |-> AllAnswer] :
        c \in Candidates, g \in NameGuilds \cup {GuildA, GuildB, NumberGuild}}

InitFind ==
    /\ message \in FindInputs
    /\ last_results = <<>>
    /\ last_lines = <<>>
    /\ pc = "find"
    /\ setup_user_stats = EmptyMap
    /\ games_found = 0
    /\ scanned = 0
    /\ db = EmptyMap
    /\ store = NoStore
    /\ prev_local = NoPrev
    /\ supabase = TRUE
    /\ now = 1
    /\ tasks = <<>>
    /\ locks = <<>>
    /\ processing_locks = EmptyMap
    /\ acquired = <<>>
    /\ issued = <<>>
    /\ derived = <<>>

\* lines 355-372 for the candidate that is the content of the message, and
\* lines 330-379 for the window that holds nothing but the candidate
Find ==
    /\ pc = "find"
    /\ derived = <<>>
    /\ derived' = <<[user |-> find_member(message.guild, message.content),
                     window |-> resolve_window(message.content, message.guild,
                                               <<>>)]>>
    /\ UNCHANGED <<message_vars, pc, setup_vars, store_vars, supabase, now,
                   live_vars>>

NextFind == Find

SpecFind == InitFind /\ [][NextFind]_vars

\* the places of the members of the guild whose display name is the candidate
DisplayMatches ==
    {i \in 1..Len(message.guild.members) :
        message.guild.members[i].display_name = message.content}

\* the places of the members of the guild whose username is the candidate
NameMatches ==
    {i \in 1..Len(message.guild.members) :
        message.guild.members[i].name = message.content}

\* the places of the members one of whose names is the candidate up to case
FoldedMatches ==
    {i \in 1..Len(message.guild.members) :
        \/ Lower(message.guild.members[i].display_name) = Lower(message.content)
        \/ Lower(message.guild.members[i].name) = Lower(message.content)}

\* the member at the least place of a set of places that is not empty
FirstAt(places) ==
    message.guild.members[CHOOSE i \in places : \A j \in places : i <= j]

\* C24: the member chosen for a candidate is the first member whose display
\* name is the candidate; without one, the first whose username is the
\* candidate; without one, the first whose display name or username is the
\* candidate up to letter case; without one, none.  A window that holds a
\* candidate of one word that is not a number gives the same member.
C24_MatchPrecedence ==
    \A i \in 1..Len(derived) :
        /\ derived[i].user =
               IF DisplayMatches # {} THEN FirstAt(DisplayMatches)
               ELSE IF NameMatches # {} THEN FirstAt(NameMatches)
               ELSE IF FoldedMatches # {} THEN FirstAt(FoldedMatches)
               ELSE NoUser
        /\ (Len(Words(message.content)) = 1 /\ ~IsDigitStr(message.content))
               => derived[i].window = derived[i].user

\* a candidate that is the username of an earlier member and the display
\* name of a later one was matched
C24_Witness ==
    /\ Len(derived) = 1
    /\ DisplayMatches # {}
    /\ NameMatches # {}
    /\ \A i \in DisplayMatches : \A j \in NameMatches : j < i
    /\ derived[1].user # NoUser

\* the word counts from the second on whose candidate names a member
LongerMatches ==
    {k \in 2..(IF Len(Words(message.content)) < 5
               THEN Len(Words(message.content)) ELSE 5) :
        find_member(message.guild, JoinWords(Words(message.content), k)) # NoUser}

\* C26: a candidate made of digits only is not matched against the members,
\* also when a member has that name; the window then resolves as its longer
\* candidates do: to the member of the least word count from the second on
\* whose candidate names one, or to none.
C26_NumericCandidateSkipped ==
    \A i \in 1..Len(derived) :
        IsDigitStr(Words(message.content)[1]) =>
            derived[i].window =
                IF LongerMatches = {} THEN NoUser
                ELSE find_member(message.guild,
                         JoinWords(Words(message.content),
                                   CHOOSE k \in LongerMatches :
                                       \A j \in LongerMatches : k <= j))

\* a window "12 Jo" in a guild with a member named 12 and a member named
\* 12 Jo: the second was taken
C26_Witness ==
    /\ Len(derived) = 1
    /\ Len(Words(message.content)) = 2
    /\ IsDigitStr(Words(message.content)[1])
    /\ find_member(message.guild, Words(message.content)[1]) = Twelve
    /\ derived[1].window = TwelveJo

\* ---------------------------------------- properties of the live messages

\* the guild of the message of a task
GuildOf(t) == LiveInputs[tasks[t].msg].guild_id

\* the task is between taking the lock and leaving "async with lock"
InCritical(t) ==
    tasks[t].pc \in {"locked", "fetching", "parsed", "inflight", "raised"}

\* the requests of a task among those issued
RequestsOf(t) == {x \in 1..Len(issued) : issued[x].task = t}

\* C11: in every reachable state at most one on_message task of a guild is
\* between taking the lock and releasing it, and a task that parses, awaits
\* a member fetch or has an increment under way holds the lock of its guild;
\* only tasks that took the lock have results or requests.
C11_SingleFlight ==
    /\ \A t, u \in DOMAIN tasks :
           (t # u /\ GuildOf(t) = GuildOf(u)) => ~(InCritical(t) /\ InCritical(u))
    /\ \A t \in DOMAIN tasks :
           InCritical(t) =>
               /\ GuildOf(t) \in DOMAIN processing_locks
               /\ tasks[t].lock = processing_locks[GuildOf(t)]
               /\ locks[tasks[t].lock].locked
    /\ \A t \in DOMAIN tasks :
           (tasks[t].results # <<>> \/ RequestsOf(t) # {}) =>
               \E i \in 1..Len(acquired) : acquired[i] = t

\* one task of a guild has an increment under way while another of the same
\* guild waits for the lock
C11_Witness ==
    \E t, u \in DOMAIN tasks :
        /\ t # u
        /\ GuildOf(t) = GuildOf(u)
        /\ tasks[t].pc = "inflight"
        /\ tasks[u].pc = "waiting"

\* C12: live messages of different guilds do not block each other: a task
\* that reaches the lock of its guild while no other task of that guild
\* holds or awaits it takes the lock at once, whatever tasks of other guilds
\* hold or await.
C12_GuildsDoNotBlock ==
    [][\A t \in DOMAIN tasks :
           ( /\ tasks[t].pc = "new"
             /\ tasks'[t].pc \notin {"new", "ignored"}
             /\ \A u \in DOMAIN tasks :
                    (u # t /\ GuildOf(u) = GuildOf(t)) =>
                        ~InCritical(u) /\ tasks[u].pc # "waiting" )
           => tasks'[t].pc = "locked"]_vars

\* tasks of two guilds both have an increment under way
C12_Witness ==
    \E t, u \in DOMAIN tasks :
        /\ GuildOf(t) # GuildOf(u)
        /\ tasks[t].pc = "inflight"
        /\ tasks[u].pc = "inflight"

\* C13: when the task of message A takes the lock of a guild before the task
\* of message B of the same guild, every increment request of A is issued and
\* has returned before any request of B is issued.
C13_RequestsInLockOrder ==
    \A x \in 1..Len(issued) :
        \A i, j \in 1..Len(acquired) :
            ( /\ i < j
              /\ acquired[j] = issued[x].task
              /\ GuildOf(acquired[i]) = GuildOf(acquired[j]) )
            => /\ tasks[acquired[i]].pc = "done"
               /\ \A y \in RequestsOf(acquired[i]) : y < x
               /\ Cardinality(RequestsOf(acquired[i]))
                      = Len(tasks[acquired[i]].results)

\* two tasks of one guild have both issued requests
C13_Witness ==
    \E x, y \in 1..Len(issued) :
        /\ x < y
        /\ issued[x].task # issued[y].task
        /\ GuildOf(issued[x].task) = GuildOf(issued[y].task)

\* the players the statistics commands may ask for
KnownIds == {Ann.id, Jo.id, JoSmith.id, Zed.id}

\* C16: without a configured client every persistence operation is a no-op:
\* the bulk store returns without a record and without a write, the read of
\* statistics gives the empty map though the table has rows, no increment
\* request is issued for a live result, and execute_supabase gives None
\* without calling its argument.
C16_UnconfiguredIsNoOp ==
    ~supabase =>
        /\ db = PriorTable
        /\ store.stage \in {"none", "returned"}
        /\ store.records = EmptyMap
        /\ issued = <<>>
        /\ \A t \in DOMAIN tasks : tasks[t].pc # "inflight"
        /\ get_user_stats_from_supabase(db, KnownIds, supabase, TRUE) = EmptyMap
        /\ ~execute_supabase(supabase, "response").called
        /\ execute_supabase(supabase, "response").returned = "None"

\* without a client, a live message with results has been handled to its end
\* and the bulk store has been called
C16_Witness ==
    /\ ~supabase
    /\ db # EmptyMap
    /\ store.stage = "returned"
    /\ \E t \in DOMAIN tasks : tasks[t].pc = "done" /\ tasks[t].results # <<>>

\* the total_games of the row of a player in a table, 0 without a row
PersistedGames(table, user_id) ==
    LET rows == {key \in DOMAIN table : table[key].user_id = FormatInt(user_id)}
    IN  IF rows = {} THEN 0 ELSE table[CHOOSE key \in rows : TRUE].total_games

\* C19 as stated: whatever the interleaving of a bulk store whose read
\* succeeded with live increments, no step lowers the persisted total_games
\* of a player: an increment applied after the read is not overwritten.
C19_IncrementNotOverwritten ==
    [][(pc = "upsert" => store.read_ok) =>
           \A user_id \in KnownIds :
               PersistedGames(db', user_id) >= PersistedGames(db, user_id)]_vars

\* C19 as amended: the upsert of a bulk store leaves every player it writes
\* with a persisted total_games above the value that store read for the
\* player, whatever increments were applied since the read.
C19_WriteAboveTheRead ==
    [][(pc = "upsert" /\ store'.stage = "stored") =>
           \A user_id \in DOMAIN store.existing_stats :
               generate_uuid_from_user_id(user_id) \in DOMAIN store.records =>
                   PersistedGames(db', user_id)
                       > store.existing_stats[user_id].total_games]_vars

\* a bulk store has written a record for a player after its read succeeded,
\* with live increments issued, and the player's row stands above the read
C19_Witness ==
    /\ store.stage = "stored"
    /\ store.read_ok
    /\ issued # <<>>
    /\ \E user_id \in DOMAIN store.existing_stats :
           /\ generate_uuid_from_user_id(user_id) \in DOMAIN store.records
           /\ PersistedGames(db, user_id) > store.existing_stats[user_id].total_games

\* ---------------------------------------------- properties of the parsers

\* the tokens a result line reports a game with
ResultTokens == {"1", "2", "3", "4", "5", "6", "X"}

\* position g of the line holds a token, "/6:", white space and more text
TokenAt(line, g) ==
    /\ g + 5 <= Len(line)
    /\ line[g] \in ResultTokens
    /\ line[g + 1] = "/"
    /\ line[g + 2] = "6"
    /\ line[g + 3] = ":"
    /\ IsSpace(line[g + 4])

\* position g is the start of the line, or what is before it is a crown and
\* white space
CrownBefore(line, g) ==
    \/ g = 1
    \/ \E crown \in {CrownText, CrownEmoji} :
           /\ g > Len(crown) + 1
           /\ g <= Len(line)
           /\ \A k \in 1..Len(crown) : line[k] = crown[k]
           /\ \A k \in (Len(crown) + 1)..(g - 1) : IsSpace(line[k])

\* where the token of a line of the result shape is; empty for other lines
TokenPositions(line) ==
    {g \in 1..Len(line) : CrownBefore(line, g) /\ TokenAt(line, g)}

\* the number of guesses a token that is a digit stands for
TokenDigit(c) == CHOOSE d \in 1..6 : FormatInt(d) = <<c>>

\* the lines of the message handled last
MessageLines == SplitLines(message.content)

WordleParsed ==
    pc = "wordle" /\ message.content # <<>> /\ is_streak_message(message.content)

NobodyParsed ==
    pc = "nobody" /\ message.content # <<>> /\ is_nobody_got_message(message.content)

\* the ids of the tags of a text, one for every tag
TagIds(text) ==
    LET mention_ids == FindMentionIds(text)
    IN  [k \in 1..Len(mention_ids) |-> ParseInt(mention_ids[k])]

TagCount(text, id) ==
    Cardinality({k \in 1..Len(TagIds(text)) : TagIds(text)[k] = id})

OutcomeCount(outcomes, id) ==
    Cardinality({k \in 1..Len(outcomes) : outcomes[k].user_id = id})

IdsOf(users) == [k \in 1..Len(users) |-> users[k].id]

OutcomeIds(outcomes) == [k \in 1..Len(outcomes) |-> outcomes[k].user_id]

\* neither the mentions of the message nor the member cache hold the id
NotAtHand(id) ==
    /\ \A k \in 1..Len(message.mentions) : message.mentions[k].id # id
    /\ \A k \in 1..Len(message.guild.members) : message.guild.members[k].id # id

\* no lookup of the message can resolve the id: it is not at hand, and there
\* is no guild, or the server has no such member, or every fetch raises
Unresolvable(id) ==
    /\ NotAtHand(id)
    /\ \/ ~message.guild.present
       \/ \A k \in 1..Len(message.guild.remote) : message.guild.remote[k].id # id
       \/ \A k \in 1..MaxFetch : message.fetch[k] # "answer"

\* C5: in parse_wordle_message_content a line of the shape
\* [crown] <d>/6: <users> with d in 1..6 gives outcomes with won = true and
\* guess_count = d, a line with X in place of d gives outcomes with
\* won = false and guess_count = 6, and a line of another shape gives none.
C5_ResultLineShape ==
    WordleParsed =>
        /\ Len(last_lines) = Len(MessageLines)
        /\ last_results = Flatten(last_lines)
        /\ \A i \in 1..Len(MessageLines) :
               LET line == Strip(MessageLines[i])
               IN  IF TokenPositions(line) = {} THEN last_lines[i] = <<>>
                   ELSE \A g \in TokenPositions(line) :
                        \A k \in 1..Len(last_lines[i]) :
                            IF line[g] = "X"
                            THEN /\ last_lines[i][k].won = FALSE
                                 /\ last_lines[i][k].guesses = 6
                            ELSE /\ last_lines[i][k].won = TRUE
                                 /\ last_lines[i][k].guesses = TokenDigit(line[g])

\* a message with a line that has a crown before X/6: and gives a lost game,
\* and a line of another shape
C5_Witness ==
    /\ WordleParsed
    /\ \E i \in 1..Len(MessageLines) :
           /\ 1 \notin TokenPositions(Strip(MessageLines[i]))
           /\ TokenPositions(Strip(MessageLines[i])) # {}
           /\ last_lines[i] # <<>>
           /\ last_lines[i][1].won = FALSE
           /\ last_lines[i][1].guesses = 6
    /\ \E i \in 1..Len(MessageLines) :
           /\ TokenPositions(Strip(MessageLines[i])) = {}
           /\ last_lines[i] = <<>>

\* C6: for a nobody message parse_nobody_message_content gives exactly one
\* outcome for every resolved player the message refers to, and every outcome
\* has won = false and guess_count = 6.
C6_NobodyOneLossPerPlayer ==
    NobodyParsed =>
        /\ \A k \in 1..Len(last_results) :
               /\ last_results[k].won = FALSE
               /\ last_results[k].guesses = 6
        /\ \A k \in 1..Len(TagIds(message.content)) :
               ~NotAtHand(TagIds(message.content)[k]) =>
                   OutcomeCount(last_results, TagIds(message.content)[k]) >= 1
        /\ \A k \in 1..Len(last_results) :
               OutcomeCount(last_results, last_results[k].user_id) = 1

\* C7: in a result line a tag <@id> that no lookup resolves gives exactly one
\* outcome with user_id = id and the name User_<id>, with won and guess_count
\* of the line.
C7_ResultLinePlaceholder ==
    WordleParsed =>
        \A i \in 1..Len(MessageLines) :
            LET line == Strip(MessageLines[i])
            IN  \A g \in TokenPositions(line) :
                \A t \in 1..Len(TagIds(line)) :
                    LET id == TagIds(line)[t]
                        expected ==
                            [user_id |-> id,
                             username |-> <<"U", "s", "e", "r", "_">> \o FormatInt(id),
                             won |-> line[g] # "X",
                             guesses |-> IF line[g] = "X" THEN 6
                                         ELSE TokenDigit(line[g])]
                    IN  /\ NotAtHand(id) =>
                               OutcomeCount(last_lines[i], id) = TagCount(line, id)
                        /\ Unresolvable(id) =>
                               \A k \in 1..Len(last_lines[i]) :
                                   last_lines[i][k].user_id = id =>
                                       last_lines[i][k] = expected

\* a line with a tag of an id the server does not know, and its placeholder
C7_Witness ==
    /\ WordleParsed
    /\ message.guild.present
    /\ \E i \in 1..Len(MessageLines) :
           /\ TokenPositions(Strip(MessageLines[i])) # {}
           /\ \E t \in 1..Len(TagIds(MessageLines[i])) :
                  /\ Unresolvable(TagIds(MessageLines[i])[t])
                  /\ \E k \in 1..Len(last_lines[i]) :
                         /\ last_lines[i][k].user_id = TagIds(MessageLines[i])[t]
                         /\ last_lines[i][k].username =
                                <<"U", "s", "e", "r", "_">> \o
                                    FormatInt(TagIds(MessageLines[i])[t])

\* C8: in a nobody message a tag <@id> that no lookup resolves gives an
\* outcome with user_id = id, a placeholder name, won = false and
\* guess_count = 6.
C8_NobodyPlaceholder ==
    NobodyParsed =>
        \A t \in 1..Len(TagIds(message.content)) :
            Unresolvable(TagIds(message.content)[t]) =>
                \E k \in 1..Len(last_results) :
                    last_results[k] =
                        [user_id |-> TagIds(message.content)[t],
                         username |-> <<"U", "s", "e", "r", "_">> \o
                                          FormatInt(TagIds(message.content)[t]),
                         won |-> FALSE,
                         guesses |-> 6]

\* the word counts k of a window whose candidate is not numeric, is not a name
\* of a user resolved before, and matches a member
MatchingCounts(words, guild, prior) ==
    {k \in 1..(IF Len(words) < 5 THEN Len(words) ELSE 5) :
        /\ ~IsDigitStr(JoinWords(words, k))
        /\ ~already_found(prior, JoinWords(words, k))
        /\ find_member(guild, JoinWords(words, k)) # NoUser}

\* the member of the smallest such k, or NoUser when there is none
ShortestMatch(text, guild, prior) ==
    LET words == Words(text)
        counts == MatchingCounts(words, guild, prior)
    IN  IF counts = {} THEN NoUser
        ELSE find_member(guild,
                 JoinWords(words, CHOOSE k \in counts : \A j \in counts : k <= j))

\* the members the windows from the i-th on give, each window at most one
RECURSIVE ShortestMatches(_, _, _, _)
ShortestMatches(windows, i, guild, prior) ==
    IF i > Len(windows) THEN <<>>
    ELSE LET user == ShortestMatch(windows[i], guild, prior)
         IN  IF user = NoUser THEN ShortestMatches(windows, i + 1, guild, prior)
             ELSE <<user>> \o ShortestMatches(windows, i + 1, guild,
                                              Append(prior, user))

\* the windows of a fragment: the text after every @ that is not in a tag
WindowsOf(fragment) ==
    LET content_clean == RemoveMentions(fragment)
        at_positions == AtPositions(content_clean)
    IN  [i \in 1..Len(at_positions) |->
            text_after_at(content_clean, at_positions, i)]

\* the tags of a fragment the lookups resolve, when no fetch was made before
TagsResolved(fragment) ==
    resolve_mentions(FindMentionIds(fragment), 1, message.mentions,
                     message.guild, message.fetch,
                     [user_objects |-> <<>>, unresolved_user_ids |-> <<>>, n |-> 0])

\* the outcomes of a fragment are those of its resolved tags, then of the
\* shortest match of every window, then of its placeholders
ShortestMatchOutcomes(fragment, outcomes, with_placeholders) ==
    LET tags == TagsResolved(fragment)
    IN  OutcomeIds(outcomes) =
            IdsOf(tags.user_objects)
            \o IdsOf(ShortestMatches(WindowsOf(fragment), 1, message.guild,
                                     tags.user_objects))
            \o (IF with_placeholders
                THEN [k \in 1..Len(tags.unresolved_user_ids) |->
                         tags.unresolved_user_ids[k][1]]
                ELSE <<>>)

\* C9: a free-text window resolves to the member matched by the smallest k
\* in 1..min(n, 5) whose candidate, the first k words of the window, is not
\* numeric, is not a name of a user resolved before in the fragment and
\* matches a member; a window gives at most one user, and none when no k
\* qualifies.
C9_ShortestPrefixWins ==
    /\ (NobodyParsed /\ message.guild.present) =>
           ShortestMatchOutcomes(message.content, last_results, FALSE)
    /\ (WordleParsed /\ message.guild.present) =>
           \A i \in 1..Len(MessageLines) :
               LET line == Strip(MessageLines[i])
               IN  ( /\ TokenPositions(line) # {}
                     /\ \A j \in 1..(i - 1) :
                            TokenPositions(Strip(MessageLines[j])) = {} )
                   => ShortestMatchOutcomes(line, last_lines[i], TRUE)

\* a window "Jo Smith" where no member is Jo: one word fails, two words give
\* the member Jo Smith
C9_Witness ==
    /\ NobodyParsed
    /\ message.guild = GuildB
    /\ \E i \in 1..Len(WindowsOf(message.content)) :
           /\ Words(WindowsOf(message.content)[i]) = <<<<"J", "o">>, <<"S", "m", "i", "t", "h">>>>
           /\ MatchingCounts(Words(WindowsOf(message.content)[i]), GuildB, <<>>) = {2}
    /\ \E k \in 1..Len(last_results) : last_results[k].user_id = JoSmith.id

\* C10: in one fragment free-text resolution gives no second outcome to a
\* player resolved before in the fragment: a player has more than one outcome
\* only when that many tags of the fragment name the player.
C10_NoSecondOutcomeFromFreeText ==
    /\ NobodyParsed =>
           \A k \in 1..Len(last_results) :
               \/ OutcomeCount(last_results, last_results[k].user_id) = 1
               \/ OutcomeCount(last_results, last_results[k].user_id)
                      <= TagCount(message.content, last_results[k].user_id)
    /\ WordleParsed =>
           \A i \in 1..Len(MessageLines) :
               \A k \in 1..Len(last_lines[i]) :
                   \/ OutcomeCount(last_lines[i], last_lines[i][k].user_id) = 1
                   \/ OutcomeCount(last_lines[i], last_lines[i][k].user_id)
                          <= TagCount(Strip(MessageLines[i]), last_lines[i][k].user_id)

\* ------------------------------------------------ properties of the store

\* the rows of the table that hold the statistics of player p
PersistedRows(p) == {key \in DOMAIN db : db[key].user_id = FormatInt(p)}

\* the records of the write-set that hold the statistics of player p
WrittenRecords(p) ==
    {key \in DOMAIN store.records : store.records[key].user_id = FormatInt(p)}

\* C1: after the loop of store_user_stats_in_supabase, when the read of the
\* persisted records succeeded, a local player is in the write-set exactly
\* when the table has no row for it or its local total_games is greater than
\* the persisted one; with local <= persisted it is not in the write-set.
C1_WriteSetIffNewOrAdvance ==
    (store.stage = "classified" /\ store.read_ok) =>
        \A p \in DOMAIN setup_user_stats :
            (WrittenRecords(p) # {}) <=>
                \/ PersistedRows(p) = {}
                \/ \A key \in PersistedRows(p) :
                       setup_user_stats[p].total_games > db[key].total_games

\* a store that read the table and found one player with as many games as
\* persisted, whom it skips, and one with more, whom it writes
C1_Witness ==
    /\ store.stage = "classified"
    /\ store.read_ok
    /\ \E p, q \in DOMAIN setup_user_stats :
        /\ \E key \in PersistedRows(p) :
               setup_user_stats[p].total_games = db[key].total_games
        /\ WrittenRecords(p) = {}
        /\ \E key \in PersistedRows(q) :
               setup_user_stats[q].total_games > db[key].total_games
        /\ WrittenRecords(q) # {}

\* C2: over any sequence of bulk stores the persisted total_games of every
\* player never decreases from one state to the next.
C2_PersistedGamesNeverDecrease ==
    [][\A key \in DOMAIN db :
           /\ key \in DOMAIN db'
           /\ db'[key].total_games >= db[key].total_games]_vars

\* C3: a store that runs a second time with the local statistics of the store
\* before it, which ran to its end, classifies every player as skipped and
\* builds no record to upsert.
C3_RescanSkipsEveryPlayer ==
    (store.stage \in {"classified", "stored", "failed"} /\ store.rescan) =>
        /\ store.records = EmptyMap
        /\ store.added_count = 0
        /\ store.updated_count = 0
        /\ store.skipped_count = Cardinality(DOMAIN setup_user_stats)

\* C4: after any sequence of process_wordle_message and
\* process_nobody_got_wordle_message calls on accumulators that start empty,
\* every accumulator has total_games = wins + losses and
\* total_guesses >= total_games.
C4_AccumulatorInvariant ==
    \A p \in DOMAIN setup_user_stats :
        /\ setup_user_stats[p].total_games =
               setup_user_stats[p].wins + setup_user_stats[p].losses
        /\ setup_user_stats[p].total_guesses >= setup_user_stats[p].total_games

\* an accumulator with a win in one guess and a loss from a nobody message
C4_Witness ==
    \E p \in DOMAIN setup_user_stats :
        /\ setup_user_stats[p].wins = 1
        /\ setup_user_stats[p].losses = 1
        /\ setup_user_stats[p].total_guesses = 1 + MAX_WORDLE_GUESSES
        /\ pc = "scan"

\* ------------------------------------------- properties of the bulk store

\* the local players the store found no persisted record for
NewPlayers == DOMAIN setup_user_stats \ DOMAIN store.existing_stats

\* the local players with more games than the record the store found
AdvancePlayers ==
    {p \in DOMAIN setup_user_stats \cap DOMAIN store.existing_stats :
        setup_user_stats[p].total_games > store.existing_stats[p].total_games}

\* the local players with no more games than the record the store found
StalePlayers ==
    {p \in DOMAIN setup_user_stats \cap DOMAIN store.existing_stats :
        setup_user_stats[p].total_games <= store.existing_stats[p].total_games}

\* C18 as stated: the upsert of a store whose read of the persisted records
\* failed writes no record for a player whose persisted total_games is
\* greater than or equal to the local one.
C18_FailedReadWritesNoStalePlayer ==
    [][(pc = "upsert" /\ ~store.read_ok /\ store'.stage = "stored") =>
           \A p \in DOMAIN setup_user_stats :
               (\E key \in PersistedRows(p) :
                    db[key].total_games >= setup_user_stats[p].total_games)
               => \A key \in PersistedRows(p) : db'[key] = db[key]]_vars

\* C20: after the loop of store_user_stats_in_supabase the three counts are
\* the numbers of new, advancing and stale players and sum to the number of
\* local players; the write-set has added_count + updated_count records, one
\* for each new or advancing player and none for a stale one, and the record
\* of an advancing player carries the four local counters.
C20_ThreeWayClassification ==
    store.stage = "classified" =>
        /\ store.added_count + store.updated_count + store.skipped_count
               = Cardinality(DOMAIN setup_user_stats)
        /\ store.added_count = Cardinality(NewPlayers)
        /\ store.updated_count = Cardinality(AdvancePlayers)
        /\ store.skipped_count = Cardinality(StalePlayers)
        /\ Cardinality(DOMAIN store.records)
               = store.added_count + store.updated_count
        /\ \A p \in NewPlayers \cup AdvancePlayers :
               Cardinality(WrittenRecords(p)) = 1
        /\ \A p \in StalePlayers : WrittenRecords(p) = {}
        /\ \A p \in AdvancePlayers : \A key \in WrittenRecords(p) :
               /\ store.records[key].total_games = setup_user_stats[p].total_games
               /\ store.records[key].total_guesses = setup_user_stats[p].total_guesses
               /\ store.records[key].wins = setup_user_stats[p].wins
               /\ store.records[key].losses = setup_user_stats[p].losses

\* a store that found a new, an advancing and a stale player
C20_Witness ==
    /\ store.stage = "classified"
    /\ NewPlayers # {}
    /\ AdvancePlayers # {}
    /\ StalePlayers # {}

\* ------------------------------------------- properties of the dispatch

\* the text holds 'Your group is on a <digits> day streak' or the same with
\* 'an', in these letters
HasStreakMarker(text) ==
    \E i \in {x \in 1..Len(text) : IsDigitChar(text[x])} :
    \E j \in {x \in i..Len(text) : IsDigitChar(text[x])} :
        /\ IsDigitStr(Slice(text, i, j))
        /\ \E article \in {<<"a">>, <<"a", "n">>} :
               LET before == StreakHead \o article \o <<" ">>
               IN  OccursAt(text, i - Len(before),
                            before \o Slice(text, i, j) \o StreakTail)

\* the text holds "Nobody got yesterday's Wordle" in some letter case
HasNobodyMarker(text) ==
    \E i \in 1..Len(text) :
        /\ i + Len(NobodyMarker) - 1 <= Len(text)
        /\ \A k \in 1..Len(NobodyMarker) :
               LowerChar(text[i + k - 1]) = LowerChar(NobodyMarker[k])

Handled == pc \in {"Results", "NoWinner", "Unrecognized"}

\* C15: what a message is handled as depends on its content alone: as
\* Results exactly when the content holds the streak marker, as NoWinner
\* exactly when it holds the nobody marker and no streak marker, otherwise as
\* neither, with no outcome; an empty content gives no outcome; a message
\* handled as Results gets no outcome of the nobody parser, one handled as
\* NoWinner gets only losses of six guesses.
C15_DispatchByContent ==
    Handled =>
        /\ pc = "Results" <=>
               (message.content # <<>> /\ HasStreakMarker(message.content))
        /\ pc = "NoWinner" <=>
               ( /\ message.content # <<>>
                 /\ ~HasStreakMarker(message.content)
                 /\ HasNobodyMarker(message.content) )
        /\ pc = "Unrecognized" => last_results = <<>>
        /\ message.content = <<>> => last_results = <<>>
        /\ pc = "Results" =>
               ((\A k \in 1..Len(MessageLines) :
                     ~MatchResultLine(MessageLines[k]).matched)
                => last_results = <<>>)
        /\ pc = "NoWinner" =>
               \A k \in 1..Len(last_results) :
                   /\ ~last_results[k].won
                   /\ last_results[k].guesses = MAX_WORDLE_GUESSES

\* a message with both markers and a player was handled as Results
C15_Witness ==
    /\ pc = "Results"
    /\ HasNobodyMarker(message.content)
    /\ HasStreakMarker(message.content)
    /\ FindMentionIds(message.content) # <<>>

\* ------------------------------------- properties of tagged result lines

\* the directory the message is resolved in: the users it mentions, the
\* members of its guild in the cache and those the platform answers with
Directory ==
    message.mentions \o message.guild.members
    \o (IF message.guild.present THEN message.guild.remote ELSE <<>>)

\* the id is resolved by some lookup of the message
Resolvable(id) ==
    \/ ~NotAtHand(id)
    \/ /\ ~Unresolvable(id)
       /\ \A k \in 1..MaxFetch : message.fetch[k] = "answer"

\* the text after the token of a result line
ReferencesOf(line) ==
    LET g == CHOOSE x \in TokenPositions(line) : TRUE
    IN  Slice(line, g + 4, Len(line))

\* every "@" of the text stands in a tag, and every tag is resolvable
OnlyResolvableTags(text) ==
    /\ \A k \in 1..Len(RemoveMentions(text)) : RemoveMentions(text)[k] # "@"
    /\ \A k \in 1..Len(TagIds(text)) : Resolvable(TagIds(text)[k])

\* one outcome for every tag of a result line, in the order of the tags, with
\* the id and name of the member and what the token of the line says
TaggedOutcomes(line) ==
    LET g == CHOOSE x \in TokenPositions(line) : TRUE
        ids == TagIds(ReferencesOf(line))
    IN  [k \in 1..Len(ids) |->
            [user_id |-> ids[k],
             username |-> get_by_id(Directory, ids[k]).name,
             won |-> line[g] # "X",
             guesses |-> IF line[g] = "X" THEN 6 ELSE TokenDigit(line[g])]]

\* the outcomes of the result lines from the i-th line of the message on
RECURSIVE TaggedOutcomesFrom(_)
TaggedOutcomesFrom(i) ==
    IF i > Len(MessageLines) THEN <<>>
    ELSE (IF TokenPositions(Strip(MessageLines[i])) = {} THEN <<>>
          ELSE TaggedOutcomes(Strip(MessageLines[i])))
         \o TaggedOutcomesFrom(i + 1)

\* every result line of the message refers to players by resolvable tags only
TaggedMessage ==
    \A i \in 1..Len(MessageLines) :
        TokenPositions(Strip(MessageLines[i])) # {} =>
            OnlyResolvableTags(ReferencesOf(Strip(MessageLines[i])))

\* C17: for a Results message whose player references are all tags of
\* resolvable ids, parse_wordle_message_content returns one outcome for every
\* tag, in the order of the lines and of the tags of a line, each with the id
\* and name of the member and the won and guess_count of its line.
C17_OneOutcomePerTag ==
    (WordleParsed /\ TaggedMessage) => last_results = TaggedOutcomesFrom(1)

\* two result lines with one tag each gave a win and then a loss
C17_Witness ==
    /\ WordleParsed
    /\ TaggedMessage
    /\ Len(last_results) = 2
    /\ last_results[1].won
    /\ ~last_results[2].won
    /\ last_results[1].user_id # last_results[2].user_id
    /\ Len(last_lines) = 3
    /\ Len(last_lines[2]) = 1
    /\ Len(last_lines[3]) = 1

\* ------------------------------------------- properties of the aggregation

\* the outcomes of a list that are of player p
OutcomesOf(outcomes, p) == {k \in 1..Len(outcomes) : outcomes[k].user_id = p}

\* the guesses of the outcomes of player p in a list, added up
RECURSIVE GuessesOf(_, _)
GuessesOf(outcomes, p) ==
    IF outcomes = <<>> THEN 0
    ELSE (IF Head(outcomes).user_id = p THEN Head(outcomes).guesses ELSE 0)
         + GuessesOf(Tail(outcomes), p)

\* the accumulator of p before the outcomes of a message are added: the one
\* it has, or a zeroed one with the name of its first outcome
Before(p, outcomes) ==
    IF p \in DOMAIN setup_user_stats THEN setup_user_stats[p]
    ELSE LET first == CHOOSE k \in OutcomesOf(outcomes, p) :
                          \A j \in OutcomesOf(outcomes, p) : k <= j
         IN  [user_id |-> p, username |-> outcomes[first].username,
              total_games |-> 0, total_guesses |-> 0, wins |-> 0, losses |-> 0]

\* C21: when the outcomes of a message are aggregated, every outcome of a
\* player adds 1 to total_games, 1 to wins if won and to losses if not, and
\* its guess_count to total_guesses, on an accumulator made zeroed with the
\* name of the outcome when the player had none; players without an outcome
\* keep their accumulators, no name of an accumulator changes and no counter
\* decreases.
C21_AdditiveAggregation ==
    [][(pc = "scan" /\ scanned' = scanned + 1) =>
           /\ DOMAIN setup_user_stats' =
                  DOMAIN setup_user_stats
                  \cup {last_results'[k].user_id : k \in 1..Len(last_results')}
           /\ \A p \in DOMAIN setup_user_stats' :
                  LET outs == OutcomesOf(last_results', p)
                      won == {k \in outs : last_results'[k].won}
                      old == Before(p, last_results')
                      new == setup_user_stats'[p]
                  IN  /\ new.user_id = p
                      /\ new.username = old.username
                      /\ new.total_games = old.total_games + Cardinality(outs)
                      /\ new.wins = old.wins + Cardinality(won)
                      /\ new.losses = old.losses + Cardinality(outs \ won)
                      /\ new.total_guesses =
                             old.total_guesses + GuessesOf(last_results', p)
                      /\ outs = {} => new = setup_user_stats[p]]_vars

\* the second message of a pass gave a player its second game and made the
\* accumulator of another player, a third player having no outcome in it
C21_Witness ==
    /\ pc = "scan"
    /\ scanned = 2
    /\ \E p, q, r \in DOMAIN setup_user_stats :
           /\ OutcomesOf(last_results, p) # {}
           /\ setup_user_stats[p].total_games = 2
           /\ OutcomesOf(last_results, q) # {}
           /\ setup_user_stats[q].total_games = 1
           /\ OutcomesOf(last_results, r) = {}

\* --------------------------------------------- properties of the outcomes

\* a parser has been applied to the message, by itself or by the dispatch
Parsed == pc \in {"wordle", "nobody", "Results", "NoWinner"}

\* C22: every outcome parse_wordle_message_content or
\* parse_nobody_message_content returns has a guess_count from 1 to 6, and
\* the guess_count 6 when it is not won.
C22_GuessCountRange ==
    Parsed =>
        \A k \in 1..Len(last_results) :
            /\ last_results[k].guesses \in 1..6
            /\ ~last_results[k].won => last_results[k].guesses = 6

\* the results parser returned an outcome won at the sixth guess
C22_Witness ==
    /\ pc = "wordle"
    /\ \E k \in 1..Len(last_results) :
           last_results[k].won /\ last_results[k].guesses = 6

\* -------------------------------------- properties of free-text references

\* a window that resolves to no member: there is no guild, or no candidate of
\* the window is a name of a member
DeadWindow(text) ==
    \/ ~message.guild.present
    \/ \A k \in 1..(IF Len(Words(text)) < 5 THEN Len(Words(text)) ELSE 5) :
           find_member(message.guild, JoinWords(Words(text), k)) = NoUser

\* the places of the windows of a fragment that may resolve to a member
LiveWindows(fragment) ==
    {i \in 1..Len(WindowsOf(fragment)) : ~DeadWindow(WindowsOf(fragment)[i])}

\* the outcomes of a fragment whose tags give tag_outcomes outcomes: the tags
\* keep theirs, only a window that may resolve adds one, and an outcome that
\* is not of a tag is of a member of the guild, under the username of the
\* member
OnlyMatchesAdd(fragment, outcomes, tag_outcomes) ==
    /\ Len(outcomes) >= tag_outcomes
    /\ Len(outcomes) <= tag_outcomes + Cardinality(LiveWindows(fragment))
    /\ \A id \in {TagIds(fragment)[t] : t \in 1..Len(TagIds(fragment))} :
           LiveWindows(fragment) = {} =>
               OutcomeCount(outcomes, id) <= TagCount(fragment, id)
    /\ \A k \in 1..Len(outcomes) :
           \/ \E t \in 1..Len(TagIds(fragment)) :
                  TagIds(fragment)[t] = outcomes[k].user_id
           \/ /\ message.guild.present
              /\ \E j \in 1..Len(message.guild.members) :
                     /\ message.guild.members[j].id = outcomes[k].user_id
                     /\ message.guild.members[j].name = outcomes[k].username

\* C25: a free-text reference that resolves to no member of the guild gives
\* no outcome and no placeholder, and without a guild no free-text reference
\* gives an outcome; the other references of the fragment keep their
\* outcomes.
C25_UnresolvedFreeTextAddsNothing ==
    /\ NobodyParsed =>
           OnlyMatchesAdd(message.content, last_results,
                          Len(TagsResolved(message.content).user_objects))
    /\ WordleParsed =>
           \A i \in 1..Len(MessageLines) :
               TokenPositions(Strip(MessageLines[i])) # {} =>
                   OnlyMatchesAdd(Strip(MessageLines[i]), last_lines[i],
                                  Len(TagIds(Strip(MessageLines[i]))))

\* a result line of a message in a guild with a tag and a window of a name
\* that no member has: the tag alone has an outcome
C25_Witness ==
    /\ WordleParsed
    /\ message.guild.present
    /\ \E i \in 1..Len(MessageLines) :
           /\ TokenPositions(Strip(MessageLines[i])) # {}
           /\ Len(TagIds(Strip(MessageLines[i]))) = 1
           /\ \E w \in 1..Len(WindowsOf(Strip(MessageLines[i]))) :
                  /\ WindowsOf(Strip(MessageLines[i]))[w] # <<>>
                  /\ DeadWindow(WindowsOf(Strip(MessageLines[i]))[w])
           /\ Len(last_lines[i]) = 1
           /\ last_lines[i][1].user_id = TagIds(Strip(MessageLines[i]))[1]

\* ------------------------------------- properties of the date of the store

\* C27: the records of one write-set of the bulk store all have the same
\* last_updated_date, which is one day before the time of the store, and so
\* is before the date of every live message made at that time or later.
C27_WriteSetDatedADayBefore ==
    \A key \in DOMAIN store.records :
        /\ \A other \in DOMAIN store.records :
               store.records[other].last_updated_date =
                   store.records[key].last_updated_date
        /\ store.records[key].last_updated_date + 1 = now
        /\ \A t \in DOMAIN tasks :
               LiveInputs[tasks[t].msg].created_at >= now =>
                   store.records[key].last_updated_date <
                       LiveInputs[tasks[t].msg].created_at

\* a write-set of two records, and a live message made at the time of the
\* store whose increments were sent
C27_Witness ==
    /\ Cardinality(DOMAIN store.records) = 2
    /\ \E t \in DOMAIN tasks :
           /\ LiveInputs[tasks[t].msg].created_at = now
           /\ tasks[t].pc = "done"
           /\ tasks[t].results # <<>>

\* ------------------------------------ properties of the release of the lock

\* a task leaves the critical section in the step
Leaves(t) == InCritical(t) /\ tasks'[t].pc = "done"

\* a task that waits is behind a task in the critical section of its lock, or
\* its lock is free and the first waiter can take it
CanGoOn(t) ==
    \/ \E u \in DOMAIN tasks : InCritical(u) /\ tasks[u].lock = tasks[t].lock
    \/ /\ ~locks[tasks[t].lock].locked
       /\ locks[tasks[t].lock].waiters # <<>>
       /\ tasks[Head(locks[tasks[t].lock].waiters)].pc = "waiting"

\* C28: the lock of the guild is released on every exit of the critical
\* section (after the last increment, on the return without results, after an
\* exception), no task waits for a lock that nothing will release, and under
\* fair scheduling every task that waits for the lock of its guild gets it.
C28_LockReleasedAndWaitersServed ==
    /\ [][\A t \in DOMAIN tasks :
             Leaves(t) => ~locks'[tasks[t].lock].locked]_vars
    /\ [](\A t \in DOMAIN tasks : tasks[t].pc = "waiting" => CanGoOn(t))
    /\ \A t \in 1..MaxTasks :
           (tasks[t].pc = "waiting") ~>
               (\E i \in 1..Len(acquired) : acquired[i] = t)

\* a task that waited has the lock after the holder left without results
C28_Witness ==
    /\ Len(acquired) = 2
    /\ tasks[acquired[2]].waited
    /\ tasks[acquired[2]].lock = tasks[acquired[1]].lock
    /\ tasks[acquired[1]].pc = "done"
    /\ tasks[acquired[1]].results = <<>>
    /\ InCritical(acquired[2])

\* ----------------------------------- properties of the increment requests

\* the place of a request among the requests of its task
RankOf(x) ==
    Cardinality({y \in RequestsOf(issued[x].task) : y <= x})

MessageOf(t) == LiveInputs[tasks[t].msg]

\* the message is not of this program, is of the Wordle bot by id or by
\* name, has a content that is handled as Results or NoWinner, and is of a
\* guild
Announcement(m) ==
    /\ m.author # BotUser
    /\ m.author.id = "1211781489931452447" \/ m.author.name = "Wordle"
    /\ m.content # <<>>
    /\ dispatch(m.content) \in {"Results", "NoWinner"}
    /\ m.guild.present

\* C30: increment requests are issued only for a live message that is not of
\* the bot itself, is of the Wordle bot (by id or by the name Wordle), has a
\* content that is not empty and is handled as Results or NoWinner, and is of
\* a guild; for every other message no request is issued and no lock of a
\* guild is made or taken.
C30_OnlyAnnouncementsCount ==
    /\ \A x \in 1..Len(issued) : Announcement(MessageOf(issued[x].task))
    /\ \A t \in DOMAIN tasks :
           ~Announcement(MessageOf(t)) =>
               /\ tasks[t].pc \in {"new", "ignored"}
               /\ tasks[t].lock = 0
               /\ \A i \in 1..Len(acquired) : acquired[i] # t
    /\ \A guild_id \in DOMAIN processing_locks :
           \E t \in DOMAIN tasks :
               /\ Announcement(MessageOf(t))
               /\ GuildOf(t) = guild_id
               /\ tasks[t].lock = processing_locks[guild_id]
    /\ Len(locks) = Cardinality(DOMAIN processing_locks)

\* a message with results of an author who is not the Wordle bot was passed
\* over, no lock was made for it, and the message of an author named Wordle
\* had its request issued
C30_Witness ==
    /\ \E t \in DOMAIN tasks :
           /\ tasks[t].pc = "ignored"
           /\ MessageOf(t).author.name = "ann"
           /\ LiveParsed[tasks[t].msg].results # <<>>
    /\ \E t \in DOMAIN tasks :
           /\ MessageOf(t).author.id # "1211781489931452447"
           /\ RequestsOf(t) # {}
    /\ Len(locks) = 1

====
